---- MODULE Spec2Model ----
(***************************************************************************)
(* MQTT 3.1.1 client session of homecontrol.esp-sensors.                   *)
(*                                                                         *)
(* Spec     models esp_sensors/mqtt_client.py: class MQTTClient driven by  *)
(*          its public operations over a byte stream fed by a broker.      *)
(* SpecESP  models esp_sensors/mqtt.py: class ESP32MQTTClient wrapping the *)
(*          MQTTClient class of that same module.                          *)
(*                                                                         *)
(* Every client operation is one action.  The bytes the broker has written *)
(* to the socket are the state variable inbuf; a receive on an empty       *)
(* buffer times out, reports end of stream (peer closed) or raises.        *)
(***************************************************************************)
EXTENDS Integers, Sequences, FiniteSets, TLC

\* ---- MQTT control packet types (first byte of the fixed header) ----
CONNECT == 16
CONNACK == 32
PUBLISH == 48
PUBACK == 64
SUBSCRIBE == 128
SUBACK == 144
PINGREQ == 192
PINGRESP == 208
DISCONNECT == 224

MQTT_PROTOCOL_LEVEL == 4
MQTT_CLEAN_SESSION == 1
CONN_ACCEPTED == 0
CONN_REFUSED_AUTH == 5

\* ---- bounds of the model ----
MaxPid == 2
MaxTime == 1
MaxIdle == 3
MaxBacklog == 2
MaxPolls == 2
MaxClock == 1200
ClockStep == 50
MaxFailures == 7

\* ---- constructor arguments of the modelled client ----
Keepalive == 1
ClientId == <<99>>
User == <<>>
Password == <<>>

\* ---- inputs the operations are called with ----
Topics == {<<97>>}
Messages == {<<109>>}
QosLevels == {0, 1}

VARIABLES
    connected,          \* MQTTClient.connected
    sock,               \* MQTTClient.sock: "none" | "up" | "dead" (created, TCP connect failed)
    pid,                \* MQTTClient.pid
    subscriptions,      \* MQTTClient.subscriptions: set of <<topic, qos>> (a dict)
    last_ping,          \* MQTTClient.last_ping
    callback,           \* MQTTClient.callback is set
    now,                \* time.time()
    inbuf,              \* bytes received on the current socket, not yet read
    inflight,           \* bytes the broker has written that have not arrived yet
    peerClosed,         \* the broker has closed the current connection
    wclient,            \* ESP32MQTTClient.client is not None
    wconnected,         \* ESP32MQTTClient.connected
    received_messages,  \* ESP32MQTTClient.received_messages: set of <<topic, msg>> (a dict)
    reconnect,          \* reconnection state: policy, attempt_count, last_attempt_time
    clock,              \* the time in seconds the reconnection policy reads
    last                \* the operation that ran last: inputs, pre-state, events, result

vars == <<connected, sock, pid, subscriptions, last_ping, callback, now, inbuf,
          inflight, peerClosed, wclient, wconnected, received_messages,
          reconnect, clock, last>>

clientVars == <<connected, sock, pid, subscriptions, last_ping>>
wrapperVars == <<wclient, wconnected, received_messages>>
policyVars == <<reconnect, clock>>

\* ---- byte helpers ----
\* struct.pack("!H", n)
Pack16(n) == <<(n \div 256) % 256, n % 256>>

\* struct.unpack("!H", b)[0]
Unpack16(b) == b[1] * 256 + b[2]

\* Python slice s[lo:hi] with 0-based bounds, clipped to the sequence
Slice(s, lo, hi) ==
    LET h == IF hi > Len(s) THEN Len(s) ELSE hi
    IN  IF lo >= h THEN <<>> ELSE SubSeq(s, lo + 1, h)

RECURSIVE _encode_length(_)
\* an encoding that never sets the continuation bit
_encode_length_no_continuation(length) ==
    IF length \div 128 > 0
    THEN <<length % 128>> \o _encode_length(length \div 128)
    ELSE <<length % 128>>

_encode_length(length) ==
    LET byte == length % 128
        rest == length \div 128
    IN  IF rest > 0 THEN <<byte + 128>> \o _encode_length(rest)
        ELSE <<byte>>

\* a length prefix of one byte
_encode_string_short_prefix(string) == <<Len(string) % 256>> \o string

_encode_string(string) == Pack16(Len(string)) \o string

\* dict helpers: a dict is a set of <<key, value>> pairs with unique keys
DictKeys(d) == {kv[1] : kv \in d}
DictPut(d, k, v) == {kv \in d : kv[1] # k} \cup {<<k, v>>}
DictDel(d, k) == {kv \in d : kv[1] # k}
DictGet(d, k) == (CHOOSE kv \in d : kv[1] = k)[2]

\* ---- events of one operation, in program order ----
Ev(ev, type, a, b) == [ev |-> ev, type |-> type, a |-> a, b |-> b]

NoRx == [type |-> -1, payload |-> <<>>, why |-> "norecv", at |-> "none"]

NoCall == [op |-> "none", result |-> "none", val |-> <<>>, log |-> <<>>,
           rx |-> NoRx, prx |-> NoRx,
           pre |-> [connected |-> FALSE, sock |-> "none", pid |-> 0,
                    subscriptions |-> {}, due |-> FALSE, wconnected |-> FALSE,
                    received_messages |-> {}, last_ping |-> 0],
           arg |-> [topic |-> <<>>, msg |-> <<>>, qos |-> 0, retain |-> FALSE]]

\* the client, its stream and the running operation as one value
Cur ==
    [connected |-> connected, sock |-> sock, pid |-> pid,
     subscriptions |-> subscriptions, last_ping |-> last_ping,
     inbuf |-> inbuf, inflight |-> inflight, peerClosed |-> peerClosed,
     received_messages |-> received_messages,
     wclient |-> wclient, wconnected |-> wconnected,
     log |-> <<>>, nsend |-> 0, rx |-> NoRx, prx |-> NoRx, exc |-> FALSE,
     ret |-> "return", val |-> <<>>]

\* I/O faults injected into one operation: failSend = n makes the n-th
\* sock.send of the operation raise; rxErr makes a receive that finds no
\* data raise instead of timing out.
NoFault == [failSend |-> 0, rxErr |-> FALSE]

\* the faults that matter to an operation making up to n sends, with or
\* without a receive
Faults(n, receives) ==
    {[failSend |-> k, rxErr |-> FALSE] : k \in 0..n}
    \cup (IF receives THEN {[failSend |-> 0, rxErr |-> TRUE]} ELSE {})

\* an allocation that counts on without wrapping
_generate_packet_id_unwrapped(c) == [c EXCEPT !.pid = c.pid + 1]

\* MQTTClient._generate_packet_id
_generate_packet_id(c) == [c EXCEPT !.pid = (c.pid + 1) % 65536]

\* MQTTClient._send_packet
_send_packet(c, f, packet_type, payload) ==
    LET packet == <<packet_type>> \o _encode_length(Len(payload)) \o payload
    IN  IF c.sock = "none" THEN [c EXCEPT !.exc = TRUE]
        ELSE IF c.sock = "dead" \/ f.failSend = c.nsend + 1
        THEN [c EXCEPT !.connected = FALSE, !.exc = TRUE, !.nsend = @ + 1,
                       !.log = Append(@, Ev("send_fail", packet_type, packet, <<>>))]
        ELSE [c EXCEPT !.nsend = @ + 1,
                       !.log = Append(@, Ev("send", packet_type, packet, <<>>))]

\* ---- MQTTClient._recv_packet ----
max_iterations == 4

\* what a sock.recv that finds no data does: raise, report end of stream
\* (empty result) or time out
Dry(c, f) ==
    IF f.rxErr THEN "error" ELSE IF c.peerClosed THEN "closed" ELSE "timeout"

\* return None, None
RxNone(c, buf, why, at) ==
    [c EXCEPT !.inbuf = buf,
              !.rx = [type |-> -1, payload |-> <<>>, why |-> why, at |-> at],
              !.log = Append(@, Ev("recv", -1, <<>>, <<>>))]

\* except Exception: self.connected = False; raise MQTTException
RxFail(c, buf, at) ==
    [c EXCEPT !.inbuf = buf, !.connected = FALSE, !.exc = TRUE,
              !.rx = [type |-> -1, payload |-> <<>>, why |-> "error", at |-> at],
              !.log = Append(@, Ev("recv_fail", -1, <<>>, <<>>))]

RxDry(c, f, buf, at) ==
    IF Dry(c, f) = "error" THEN RxFail(c, buf, at)
    ELSE RxNone(c, buf, Dry(c, f), at)

\* a loop that leaves multiplier at 1: every digit weighs the same
RECURSIVE ReadLength_flat_multiplier(_, _, _, _)
ReadLength_flat_multiplier(buf, iterations, remaining_length, multiplier) ==
    IF buf = <<>>
    THEN [status |-> "dry", value |-> 0, buf |-> buf, used |-> iterations]
    ELSE LET byte == Head(buf)
             rl == remaining_length + (byte % 128) * multiplier
         IN  IF byte < 128
             THEN [status |-> "ok", value |-> rl, buf |-> Tail(buf),
                   used |-> iterations + 1]
             ELSE IF iterations + 1 = max_iterations
             THEN [status |-> "malformed", value |-> rl, buf |-> Tail(buf),
                   used |-> iterations + 1]
             ELSE ReadLength_flat_multiplier(Tail(buf), iterations + 1, rl, multiplier)

\* the remaining-length loop: one byte per iteration, at most max_iterations
RECURSIVE ReadLength(_, _, _, _)
ReadLength(buf, iterations, remaining_length, multiplier) ==
    IF buf = <<>>
    THEN [status |-> "dry", value |-> 0, buf |-> buf, used |-> iterations]
    ELSE LET byte == Head(buf)
             rl == remaining_length + (byte % 128) * multiplier
         IN  IF byte < 128
             THEN [status |-> "ok", value |-> rl, buf |-> Tail(buf),
                   used |-> iterations + 1]
             ELSE IF iterations + 1 = max_iterations
             THEN [status |-> "malformed", value |-> rl, buf |-> Tail(buf),
                   used |-> iterations + 1]
             ELSE ReadLength(Tail(buf), iterations + 1, rl, multiplier * 128)

\* the part of _recv_packet after the type byte: len is what the
\* remaining-length loop found
_recv_packet_body(c, f, packet_type, len) ==
    IF len.status = "dry" THEN RxDry(c, f, <<>>, "length")
    ELSE IF len.status = "malformed"
    THEN RxNone(c, len.buf, "malformed", "length")
    ELSE IF len.value > Len(len.buf) THEN RxDry(c, f, <<>>, "payload")
    ELSE [c EXCEPT
            !.inbuf = Slice(len.buf, len.value, Len(len.buf)),
            !.rx = [type |-> packet_type,
                    payload |-> Slice(len.buf, 0, len.value),
                    why |-> "packet", at |-> "none"],
            !.log = Append(@, Ev("recv", packet_type,
                                 Slice(len.buf, 0, len.value), <<>>))]

_recv_packet(c, f) ==
    IF c.sock = "none" THEN [c EXCEPT !.exc = TRUE]
    ELSE IF c.sock = "dead" THEN RxFail(c, c.inbuf, "type")
    ELSE IF c.inbuf = <<>> THEN RxDry(c, f, <<>>, "type")
    ELSE _recv_packet_body(c, f, Head(c.inbuf),
                           ReadLength(Tail(c.inbuf), 0, 0, 1))

\* ---- MQTTClient.connect ----
ConnectPayload ==
    LET connect_flags == (IF User # <<>> THEN 128 ELSE 0)
                         + (IF Password # <<>> THEN 64 ELSE 0)
                         + MQTT_CLEAN_SESSION * 2
    IN  _encode_string(<<77, 81, 84, 84>>) \o <<MQTT_PROTOCOL_LEVEL>>
        \o <<connect_flags>> \o Pack16(Keepalive) \o _encode_string(ClientId)
        \o (IF User # <<>> THEN _encode_string(User) ELSE <<>>)
        \o (IF Password # <<>> THEN _encode_string(Password) ELSE <<>>)

TcpOutcomes == {"ok", "create_fail", "connect_fail"}

\* self.sock = socket.socket(); self.sock.connect(...): a new socket starts a
\* new byte stream.  greeting is what the broker writes on it while connect
\* waits for the CONNACK, hangup whether it then closes the connection.
\* a connect that starts the client's table of subscriptions afresh
OpenSocket_new_table(c0, state, greeting, hangup) ==
    [c0 EXCEPT !.sock = state, !.inbuf = greeting, !.inflight = <<>>,
               !.peerClosed = hangup, !.subscriptions = {},
               !.log = Append(@, Ev("socket", 0, <<>>, <<>>))]

OpenSocket(c0, state, greeting, hangup) ==
    [c0 EXCEPT !.sock = state, !.inbuf = greeting, !.inflight = <<>>,
               !.peerClosed = hangup,
               !.log = Append(@, Ev("socket", 0, <<>>, <<>>))]

\* connect from the CONNACK wait on: c3 is the session after _recv_packet
connect_connack(c3, t) ==
    IF c3.exc THEN c3
    ELSE IF c3.rx.type = -1 THEN [c3 EXCEPT !.ret = "return 1"]
    ELSE IF c3.rx.type # CONNACK THEN [c3 EXCEPT !.exc = TRUE]
    ELSE IF Len(c3.rx.payload) # 2 THEN [c3 EXCEPT !.exc = TRUE]
    ELSE IF c3.rx.payload[2] # CONN_ACCEPTED THEN [c3 EXCEPT !.exc = TRUE]
    ELSE [c3 EXCEPT !.connected = TRUE, !.last_ping = t, !.ret = "return 0"]

\* connect after the CONNECT packet was handed to _send_packet
connect_sent(c2, f, t) ==
    IF c2.exc THEN c2 ELSE connect_connack(_recv_packet(c2, f), t)

\* tcp is the outcome of socket.socket() and sock.connect()
connect(c0, f, tcp, t, greeting, hangup) ==
    IF tcp = "create_fail" THEN [c0 EXCEPT !.exc = TRUE]
    ELSE IF tcp = "connect_fail"
    THEN [OpenSocket(c0, "dead", <<>>, FALSE) EXCEPT !.exc = TRUE]
    ELSE connect_sent(_send_packet(OpenSocket(c0, "up", greeting, hangup), f,
                                   CONNECT, ConnectPayload), f, t)

\* ---- MQTTClient.disconnect ----
\* a finally clause that drops the socket and leaves the flag as it is
disconnect_finally_keeps_flag(c1) ==
    [c1 EXCEPT !.sock = "none", !.exc = FALSE]

\* c1 is the session after the DISCONNECT send: close() runs only if the send
\* did not raise; the finally clause resets connected and sock
disconnect_finally(c1) ==
    [(IF c1.exc THEN c1
      ELSE [c1 EXCEPT !.log = Append(@, Ev("close", 0, <<>>, <<>>))])
        EXCEPT !.connected = FALSE, !.sock = "none", !.exc = FALSE]

disconnect(c0, f) ==
    IF c0.connected
    THEN disconnect_finally(_send_packet(c0, f, DISCONNECT, <<>>))
    ELSE c0

\* ---- MQTTClient.ping ----
\* mutant of ping_response: a receive that yields no packet is a wrong answer
ping_response_hard_timeout(c2, t) ==
    IF c2.exc THEN c2
    ELSE IF c2.rx.type # PINGRESP
    THEN [c2 EXCEPT !.connected = FALSE, !.exc = TRUE]
    ELSE [c2 EXCEPT !.last_ping = t]

\* ping from the PINGRESP wait on: c2 is the session after _recv_packet
ping_response(c2, t) ==
    IF c2.exc THEN c2
    ELSE IF c2.rx.type = -1 THEN [c2 EXCEPT !.last_ping = t]
    ELSE IF c2.rx.type # PINGRESP
    THEN [c2 EXCEPT !.connected = FALSE, !.exc = TRUE]
    ELSE [c2 EXCEPT !.last_ping = t]

\* ping after the PINGREQ was handed to _send_packet
ping_sent(c1, f, t) ==
    IF c1.exc THEN c1 ELSE ping_response(_recv_packet(c1, f), t)

ping(c0, f, t) ==
    IF c0.connected THEN ping_sent(_send_packet(c0, f, PINGREQ, <<>>), f, t)
    ELSE c0

\* if self.keepalive > 0 and time.time() - self.last_ping >= self.keepalive
\* a check that lets the interval itself pass without a ping
PingDue_strict(c, t) == Keepalive > 0 /\ t - c.last_ping > Keepalive

PingDue(c, t) == Keepalive > 0 /\ t - c.last_ping >= Keepalive

\* prx keeps what an implicit ping received; rx is left for the receive of
\* the operation that pinged
AsKeepalive(p) == [p EXCEPT !.prx = p.rx, !.rx = NoRx]

\* the implicit ping of publish, subscribe and check_msg
KeepalivePing(c, f, t) ==
    IF PingDue(c, t) THEN AsKeepalive(ping(c, f, t)) ELSE c

\* ---- MQTTClient.publish ----
PublishType(retain, qos) == PUBLISH + (IF retain THEN 1 ELSE 0) + qos * 2

\* publish from the PUBACK wait on: c4 is the session after _recv_packet
publish_puback(c4) ==
    IF c4.exc THEN c4
    ELSE IF c4.rx.type = -1 THEN c4
    ELSE IF c4.rx.type # PUBACK THEN [c4 EXCEPT !.exc = TRUE]
    ELSE c4

\* publish after the PUBLISH packet was handed to _send_packet
publish_sent(c3, f, qos) ==
    IF c3.exc THEN c3
    ELSE IF qos # 1 THEN c3
    ELSE publish_puback(_recv_packet(c3, f))

\* a publish that takes a packet id whatever the QoS
publish_packet_always_allocates(c1, f, topic, msg, retain, qos) ==
    IF c1.exc THEN c1
    ELSE publish_sent(_send_packet(_generate_packet_id(c1), f,
                                   PublishType(retain, qos),
                                   _encode_string(topic) \o msg), f, qos)

\* publish after the keepalive check: packet id, payload, send
publish_packet(c1, f, topic, msg, retain, qos) ==
    LET c2 == IF qos > 0 THEN _generate_packet_id(c1) ELSE c1
        payload == _encode_string(topic)
                   \o (IF qos > 0 THEN Pack16(c2.pid) ELSE <<>>) \o msg
    IN  IF c1.exc THEN c1
        ELSE publish_sent(_send_packet(c2, f, PublishType(retain, qos), payload),
                          f, qos)

publish(c0, f, t, topic, msg, retain, qos) ==
    IF ~c0.connected THEN [c0 EXCEPT !.exc = TRUE]
    ELSE publish_packet(KeepalivePing(c0, f, t), f, topic, msg, retain, qos)

\* ---- MQTTClient.subscribe ----
\* subscribe from the SUBACK wait on: c4 is the session after _recv_packet
subscribe_suback(c4, topic, qos) ==
    IF c4.exc THEN c4
    ELSE IF c4.rx.type # -1 /\ c4.rx.type # SUBACK THEN [c4 EXCEPT !.exc = TRUE]
    ELSE [c4 EXCEPT !.subscriptions = DictPut(@, topic, qos)]

\* subscribe after the SUBSCRIBE packet was handed to _send_packet
subscribe_sent(c3, f, topic, qos) ==
    IF c3.exc THEN c3 ELSE subscribe_suback(_recv_packet(c3, f), topic, qos)

\* subscribe after the keepalive check: packet id, payload, send
subscribe_packet(c1, f, topic, qos) ==
    LET c2 == _generate_packet_id(c1)
        payload == Pack16(c2.pid) \o _encode_string(topic) \o <<qos>>
    IN  IF c1.exc THEN c1
        ELSE subscribe_sent(_send_packet(c2, f, SUBSCRIBE + 2, payload), f,
                            topic, qos)

subscribe(c0, f, t, topic, qos) ==
    IF ~c0.connected THEN [c0 EXCEPT !.exc = TRUE]
    ELSE subscribe_packet(KeepalivePing(c0, f, t), f, topic, qos)

\* ---- MQTTClient.check_msg ----
\* cb: "none" (no callback set), "handler" (an application handler) or
\* "store" (ESP32MQTTClient._message_callback)
Deliver(c, cb, topic, message) ==
    IF cb = "none" THEN c
    ELSE IF cb = "store"
    THEN [c EXCEPT !.log = Append(@, Ev("deliver", 0, topic, message)),
                   !.received_messages = DictPut(@, topic, message)]
    ELSE [c EXCEPT !.log = Append(@, Ev("deliver", 0, topic, message))]

\* self._send_packet(PUBACK, ...) inside check_msg's try block: a failure is
\* caught there
SendPuback(c, f, rpid) ==
    [_send_packet(c, f, PUBACK, Pack16(rpid)) EXCEPT !.exc = FALSE]

\* mutant of HandleQos: the handler runs before the PUBACK is sent
HandleQos_deliver_first(c, f, cb, qos, topic, rpid, message) ==
    IF qos = 1 THEN SendPuback(Deliver(c, cb, topic, message), f, rpid)
    ELSE Deliver(c, cb, topic, message)

\* a PUBLISH with qos > 0: PUBACK for qos 1, then the callback
HandleQos(c, f, cb, qos, topic, rpid, message) ==
    IF qos = 1 THEN Deliver(SendPuback(c, f, rpid), cb, topic, message)
    ELSE Deliver(c, cb, topic, message)

\* check_msg's handling of a received PUBLISH packet
HandlePublish(c, f, cb) ==
    LET payload == c.rx.payload
        qos == (c.rx.type \div 2) % 4
        topic_len == Unpack16(Slice(payload, 0, 2))
        topic == Slice(payload, 2, 2 + topic_len)
    IN  IF Len(payload) < 2 THEN c
        ELSE IF Len(payload) < 2 + topic_len THEN c
        ELSE IF qos > 0
        THEN IF Len(payload) < 2 + topic_len + 2 THEN c
             ELSE HandleQos(c, f, cb, qos, topic,
                            Unpack16(Slice(payload, 2 + topic_len,
                                           2 + topic_len + 2)),
                            Slice(payload, 2 + topic_len + 2, Len(payload)))
        ELSE Deliver(c, cb, topic, Slice(payload, 2 + topic_len, Len(payload)))

\* mutant of check_msg_packet: a packet that is no PUBLISH is an error, as in
\* ping
check_msg_packet_rejects_other(c2, f, cb) ==
    IF c2.exc THEN c2
    ELSE IF c2.rx.type = -1 THEN c2
    ELSE IF (c2.rx.type \div 16) * 16 # PUBLISH
    THEN [c2 EXCEPT !.connected = FALSE, !.exc = TRUE]
    ELSE HandlePublish(c2, f, cb)

\* check_msg from its own receive on: c2 is the session after _recv_packet
check_msg_packet(c2, f, cb) ==
    IF c2.exc THEN c2
    ELSE IF c2.rx.type = -1 THEN c2
    ELSE IF (c2.rx.type \div 16) * 16 # PUBLISH THEN c2
    ELSE HandlePublish(c2, f, cb)

\* check_msg after the keepalive check
check_msg_recv(c1, f, cb) ==
    IF c1.exc THEN c1 ELSE check_msg_packet(_recv_packet(c1, f), f, cb)

check_msg(c0, f, t, cb) ==
    IF ~c0.connected THEN c0
    ELSE check_msg_recv(KeepalivePing(c0, f, t), f, cb)

\* ======== esp_sensors/mqtt.py: class MQTTClient ========
\* _generate_packet_id, _encode_length, _encode_string, _send_packet and
\* disconnect of mqtt.py are, statement for statement, those of
\* mqtt_client.py above (SIMULATION is False: its import is commented out).

\* return packet_type[0], payload
RxPacket(c, buf, packet_type, payload, why) ==
    [c EXCEPT !.inbuf = buf,
              !.rx = [type |-> packet_type, payload |-> payload, why |-> why,
                      at |-> "none"],
              !.log = Append(@, Ev("recv", packet_type, payload, <<>>))]

\* the remaining-length loop of mqtt.py: no bound on the number of bytes
RECURSIVE M_ReadLength(_, _, _)
M_ReadLength(buf, remaining_length, multiplier) ==
    IF buf = <<>> THEN [status |-> "dry", value |-> 0, buf |-> buf]
    ELSE IF Head(buf) < 128
    THEN [status |-> "ok",
          value |-> remaining_length + (Head(buf) % 128) * multiplier,
          buf |-> Tail(buf)]
    ELSE M_ReadLength(Tail(buf),
                      remaining_length + (Head(buf) % 128) * multiplier,
                      multiplier * 128)

\* the part of mqtt.py's _recv_packet after the type byte.  recv(1)[0] on an
\* empty result raises IndexError; the payload is read with one recv, which
\* may return fewer bytes than asked for
M_recv_packet_body(c, f, packet_type, len) ==
    IF len.status = "dry"
    THEN IF Dry(c, f) = "timeout" THEN RxNone(c, <<>>, "timeout", "length")
         ELSE RxFail(c, <<>>, "length")
    ELSE IF len.value = 0
    THEN RxPacket(c, len.buf, packet_type, <<>>, "packet")
    ELSE IF len.buf = <<>>
    THEN IF Dry(c, f) = "timeout" THEN RxNone(c, <<>>, "timeout", "payload")
         ELSE IF Dry(c, f) = "closed"
         THEN RxPacket(c, <<>>, packet_type, <<>>, "short")
         ELSE RxFail(c, <<>>, "payload")
    ELSE RxPacket(c, Slice(len.buf, len.value, Len(len.buf)), packet_type,
                  Slice(len.buf, 0, len.value),
                  IF Len(len.buf) < len.value THEN "short" ELSE "packet")

M_recv_packet(c, f) ==
    IF c.sock = "none" THEN [c EXCEPT !.exc = TRUE]
    ELSE IF c.sock = "dead" THEN RxFail(c, c.inbuf, "type")
    ELSE IF c.inbuf = <<>> THEN RxDry(c, f, <<>>, "type")
    ELSE M_recv_packet_body(c, f, Head(c.inbuf),
                            M_ReadLength(Tail(c.inbuf), 0, 1))

\* mqtt.py's connect from the CONNACK wait on
M_connect_connack(c3, t) ==
    IF c3.exc THEN c3
    ELSE IF c3.rx.type # CONNACK THEN [c3 EXCEPT !.exc = TRUE]
    ELSE IF Len(c3.rx.payload) # 2 THEN [c3 EXCEPT !.exc = TRUE]
    ELSE IF c3.rx.payload[2] # CONN_ACCEPTED THEN [c3 EXCEPT !.exc = TRUE]
    ELSE [c3 EXCEPT !.connected = TRUE, !.last_ping = t, !.ret = "return 0"]

M_connect_sent(c2, f, t) ==
    IF c2.exc THEN c2 ELSE M_connect_connack(M_recv_packet(c2, f), t)

M_connect(c0, f, tcp, t, greeting, hangup) ==
    IF tcp = "create_fail" THEN [c0 EXCEPT !.exc = TRUE]
    ELSE IF tcp = "connect_fail"
    THEN [OpenSocket(c0, "dead", <<>>, FALSE) EXCEPT !.exc = TRUE]
    ELSE M_connect_sent(_send_packet(OpenSocket(c0, "up", greeting, hangup), f,
                                     CONNECT, ConnectPayload), f, t)

\* mqtt.py's ping from the PINGRESP wait on: no packet is a wrong answer
M_ping_response(c2, t) ==
    IF c2.exc THEN c2
    ELSE IF c2.rx.type # PINGRESP
    THEN [c2 EXCEPT !.connected = FALSE, !.exc = TRUE]
    ELSE [c2 EXCEPT !.last_ping = t]

M_ping_sent(c1, f, t) ==
    IF c1.exc THEN c1 ELSE M_ping_response(M_recv_packet(c1, f), t)

M_ping(c0, f, t) ==
    IF c0.connected THEN M_ping_sent(_send_packet(c0, f, PINGREQ, <<>>), f, t)
    ELSE c0

M_KeepalivePing(c, f, t) ==
    IF PingDue(c, t) THEN AsKeepalive(M_ping(c, f, t)) ELSE c

\* mqtt.py's publish from the PUBACK wait on
M_publish_puback(c4) ==
    IF c4.exc THEN c4
    ELSE IF c4.rx.type # PUBACK THEN [c4 EXCEPT !.exc = TRUE]
    ELSE c4

M_publish_sent(c3, f, qos) ==
    IF c3.exc THEN c3
    ELSE IF qos # 1 THEN c3
    ELSE M_publish_puback(M_recv_packet(c3, f))

M_publish_packet(c1, f, topic, msg, retain, qos) ==
    LET c2 == IF qos > 0 THEN _generate_packet_id(c1) ELSE c1
        payload == _encode_string(topic)
                   \o (IF qos > 0 THEN Pack16(c2.pid) ELSE <<>>) \o msg
    IN  IF c1.exc THEN c1
        ELSE M_publish_sent(_send_packet(c2, f, PublishType(retain, qos),
                                         payload), f, qos)

M_publish(c0, f, t, topic, msg, retain, qos) ==
    IF ~c0.connected THEN [c0 EXCEPT !.exc = TRUE]
    ELSE M_publish_packet(M_KeepalivePing(c0, f, t), f, topic, msg, retain, qos)

\* a subscribe that does not write the topic down
M_subscribe_suback_forgets(c4, topic, qos) ==
    IF c4.exc THEN c4
    ELSE IF c4.rx.type # SUBACK THEN [c4 EXCEPT !.exc = TRUE]
    ELSE c4

\* mqtt.py's subscribe from the SUBACK wait on
M_subscribe_suback(c4, topic, qos) ==
    IF c4.exc THEN c4
    ELSE IF c4.rx.type # SUBACK THEN [c4 EXCEPT !.exc = TRUE]
    ELSE [c4 EXCEPT !.subscriptions = DictPut(@, topic, qos)]

M_subscribe_sent(c3, f, topic, qos) ==
    IF c3.exc THEN c3 ELSE M_subscribe_suback(M_recv_packet(c3, f), topic, qos)

M_subscribe_packet(c1, f, topic, qos) ==
    LET c2 == _generate_packet_id(c1)
        payload == Pack16(c2.pid) \o _encode_string(topic) \o <<qos>>
    IN  IF c1.exc THEN c1
        ELSE M_subscribe_sent(_send_packet(c2, f, SUBSCRIBE + 2, payload), f,
                              topic, qos)

M_subscribe(c0, f, t, topic, qos) ==
    IF ~c0.connected THEN [c0 EXCEPT !.exc = TRUE]
    ELSE M_subscribe_packet(M_KeepalivePing(c0, f, t), f, topic, qos)

\* the callback runs only if the PUBACK send did not raise
M_Deliver_after(c, cb, topic, message) ==
    IF c.exc THEN c ELSE Deliver(c, cb, topic, message)

\* mqtt.py's check_msg on a received PUBLISH: nothing checks the payload's
\* length.  struct.unpack raises struct.error on fewer than 2 bytes; a slice
\* past the end is silently cut short
M_HandleQos(c, f, cb, qos, topic, idbytes, message) ==
    IF Len(idbytes) < 2 THEN [c EXCEPT !.exc = TRUE]
    ELSE IF qos = 1
    THEN M_Deliver_after(_send_packet(c, f, PUBACK, Pack16(Unpack16(idbytes))),
                         cb, topic, message)
    ELSE Deliver(c, cb, topic, message)

M_HandlePublish(c, f, cb) ==
    LET payload == c.rx.payload
        qos == (c.rx.type \div 2) % 4
        topic_len == Unpack16(Slice(payload, 0, 2))
        topic == Slice(payload, 2, 2 + topic_len)
    IN  IF Len(payload) < 2 THEN [c EXCEPT !.exc = TRUE]
        ELSE IF qos > 0
        THEN M_HandleQos(c, f, cb, qos, topic,
                         Slice(payload, 2 + topic_len, 2 + topic_len + 2),
                         Slice(payload, 2 + topic_len + 2, Len(payload)))
        ELSE Deliver(c, cb, topic, Slice(payload, 2 + topic_len, Len(payload)))

\* mqtt.py's check_msg from its own receive on
M_check_msg_packet(c2, f, cb) ==
    IF c2.exc THEN c2
    ELSE IF c2.rx.type = -1 THEN c2
    ELSE IF (c2.rx.type \div 16) * 16 # PUBLISH THEN c2
    ELSE M_HandlePublish(c2, f, cb)

M_check_msg_recv(c1, f, cb) ==
    IF c1.exc THEN c1 ELSE M_check_msg_packet(M_recv_packet(c1, f), f, cb)

M_check_msg(c0, f, t, cb) ==
    IF ~c0.connected THEN c0
    ELSE M_check_msg_recv(M_KeepalivePing(c0, f, t), f, cb)

\* ======== esp_sensors/mqtt.py: class ESP32MQTTClient ========
\* self.client = MQTTClient(...): the previous client and its socket are
\* dropped
NewClient(c0) ==
    [c0 EXCEPT !.connected = FALSE, !.sock = "none", !.pid = 0,
               !.subscriptions = {}, !.last_ping = 0, !.wclient = TRUE]

\* result = self.client.connect(); if result == 0 ... except Exception
ESP32_connect_result(c1) ==
    IF c1.exc
    THEN [c1 EXCEPT !.exc = FALSE, !.wconnected = FALSE, !.ret = "return False"]
    ELSE IF c1.ret = "return 0"
    THEN [c1 EXCEPT !.wconnected = TRUE, !.ret = "return True"]
    ELSE [c1 EXCEPT !.wconnected = FALSE, !.ret = "return False"]

ESP32_connect(c0, f, tcp, t, greeting, hangup) ==
    ESP32_connect_result(M_connect(NewClient(c0), f, tcp, t, greeting, hangup))

ESP32_disconnect(c0, f) ==
    IF c0.wclient /\ c0.wconnected
    THEN [disconnect(c0, f) EXCEPT !.wconnected = FALSE]
    ELSE c0

\* try: self.client.publish(...); return True
\* except Exception: self.connected = False; return False
ESP32_publish_result(c1) ==
    IF c1.exc
    THEN [c1 EXCEPT !.exc = FALSE, !.wconnected = FALSE, !.ret = "return False"]
    ELSE [c1 EXCEPT !.ret = "return True"]

ESP32_publish(c0, f, t, topic, message, retain, qos) ==
    IF ~c0.wconnected \/ ~c0.wclient THEN [c0 EXCEPT !.ret = "return False"]
    ELSE ESP32_publish_result(M_publish(c0, f, t, topic, message, retain, qos))

\* try: self.client.subscribe(...); return True
\* except Exception: self.connected = False; return False
ESP32_subscribe_result(c1) ==
    IF c1.exc
    THEN [c1 EXCEPT !.exc = FALSE, !.wconnected = FALSE, !.ret = "return False"]
    ELSE [c1 EXCEPT !.ret = "return True"]

ESP32_subscribe(c0, f, t, topic, qos) ==
    IF ~c0.wconnected \/ ~c0.wclient THEN [c0 EXCEPT !.ret = "return False"]
    ELSE ESP32_subscribe_result(M_subscribe(c0, f, t, topic, qos))

\* ---- publish_sensor_data ----
\* the topics <prefix>/<sensor_id>/temperature, .../humidity and .../data
\* and the payloads published under them
SensorTopics == <<<<116>>, <<104>>, <<100>>>>
SensorPayloads == <<<<50>>, <<54>>, <<123, 125>>>>
ClientKinds == {"None", "ESP32MQTTClient", "MQTTClient"}

\* client.publish(topic, payload) for either client type; an exception of
\* an earlier statement of the try block skips the call
sensor_publish(kind, c, f, t, i) ==
    IF c.exc THEN c
    ELSE IF kind = "ESP32MQTTClient"
    THEN ESP32_publish(c, f, t, SensorTopics[i], SensorPayloads[i], FALSE, 0)
    ELSE M_publish(c, f, t, SensorTopics[i], SensorPayloads[i], FALSE, 0)

\* return True after the third publish; except Exception: return False
publish_sensor_data_result(c3) ==
    IF c3.exc THEN [c3 EXCEPT !.exc = FALSE, !.ret = "return False"]
    ELSE [c3 EXCEPT !.ret = "return True"]

publish_sensor_data(kind, c0, f, t) ==
    IF kind = "None" THEN [c0 EXCEPT !.ret = "return False"]
    ELSE publish_sensor_data_result(
             sensor_publish(kind,
                 sensor_publish(kind,
                     sensor_publish(kind, c0, f, t, 1), f, t, 2), f, t, 3))

\* ---- ESP32MQTTClient.read_topic ----
\* bytes that reach the socket before a poll of read_topic
Arrive(c, p) ==
    IF c.sock = "up" /\ ~c.peerClosed THEN [c EXCEPT !.inbuf = @ \o p] ELSE c

\* the polling loop: polls is the number of iterations wait_time allows, each
\* a check_msg of the inner client; arrivals[i] is what arrives before poll i
RECURSIVE read_topic_loop(_, _, _, _, _, _)
\* a poll that leaves what it stored where it is
read_topic_polled_ignores_store(c1, f, t, topic, polls, arrivals) ==
    IF c1.exc
    THEN [c1 EXCEPT !.exc = FALSE, !.wconnected = FALSE, !.ret = "return None"]
    ELSE read_topic_loop(c1, f, t, topic, polls - 1, Tail(arrivals))

read_topic_polled(c1, f, t, topic, polls, arrivals) ==
    IF c1.exc
    THEN [c1 EXCEPT !.exc = FALSE, !.wconnected = FALSE, !.ret = "return None"]
    ELSE IF topic \in DictKeys(c1.received_messages)
    THEN [c1 EXCEPT !.ret = "return payload",
                    !.val = DictGet(c1.received_messages, topic)]
    ELSE read_topic_loop(c1, f, t, topic, polls - 1, Tail(arrivals))

read_topic_loop(c, f, t, topic, polls, arrivals) ==
    IF polls = 0 THEN [c EXCEPT !.ret = "return None"]
    ELSE read_topic_polled(M_check_msg(Arrive(c, Head(arrivals)), f, t, "store"),
                           f, t, topic, polls, arrivals)

\* mutant of read_topic_clear: the entry stored for the topic is kept
read_topic_clear_keeps_entry(c0, topic) == c0

\* if topic_str in self.received_messages: del ...
read_topic_clear(c0, topic) ==
    [c0 EXCEPT !.received_messages = DictDel(@, topic)]

\* self.subscribe(topic): its result is not looked at
\* ack is the broker's answer to the SUBSCRIBE, on the socket when subscribe
\* waits for it
read_topic_subscribe(c0, f, t, topic, ack) ==
    [ESP32_subscribe(Arrive(c0, ack), f, t, topic, 0) EXCEPT !.ret = "return"]

read_topic(c0, f, t, topic, ack, polls, arrivals) ==
    IF ~c0.wconnected \/ ~c0.wclient THEN [c0 EXCEPT !.ret = "return None"]
    ELSE read_topic_loop(
            read_topic_subscribe(read_topic_clear(c0, topic), f, t, topic, ack),
            f, t, topic, polls, arrivals)

\* ---- the reconnection policy ----
\* the policy of the scenario: max_attempts, min_interval, backoff_factor,
\* max_interval
ScenarioPolicy ==
    [max_attempts |-> 3, min_interval |-> 100, backoff_factor |-> 2,
     max_interval |-> 400]

Policies ==
    {ScenarioPolicy,
     [max_attempts |-> 1, min_interval |-> 50, backoff_factor |-> 3,
      max_interval |-> 200],
     [max_attempts |-> 0, min_interval |-> 100, backoff_factor |-> 1,
      max_interval |-> 100]}

NewReconnectionState(policy) ==
    [policy |-> policy, attempt_count |-> 0, last_attempt_time |-> 0]

RECURSIVE Power(_, _)
Power(b, e) == IF e = 0 THEN 1 ELSE b * Power(b, e - 1)

Min(a, b) == IF a <= b THEN a ELSE b

\* interval = min(min_interval * backoff_factor^(attempt_count - max_attempts),
\*                max_interval)
backoff_interval(state) ==
    Min(state.policy.min_interval
            * Power(state.policy.backoff_factor,
                    state.attempt_count - state.policy.max_attempts),
        state.policy.max_interval)

\* a policy that waits min_interval whatever the number of failures
should_attempt_connection_flat(state, t) ==
    IF state.attempt_count < state.policy.max_attempts THEN TRUE
    ELSE t - state.last_attempt_time >= state.policy.min_interval

should_attempt_connection(state, t) ==
    IF state.attempt_count < state.policy.max_attempts THEN TRUE
    ELSE t - state.last_attempt_time >= backoff_interval(state)

\* an update that leaves last_attempt_time as it was
update_reconnection_state_keeps_time(state, success, t) ==
    [state EXCEPT !.attempt_count = IF success THEN 0 ELSE @ + 1]

update_reconnection_state(state, success, t) ==
    [state EXCEPT !.attempt_count = IF success THEN 0 ELSE @ + 1,
                  !.last_attempt_time = t]

\* ---- the broker side of the connection ----
BrokerPids == {7}

PublishPacket(topic, msg, retain, qos, id) ==
    LET payload == _encode_string(topic)
                   \o (IF qos > 0 THEN Pack16(id) ELSE <<>>) \o msg
    IN  <<PublishType(retain, qos)>> \o _encode_length(Len(payload)) \o payload

BrokerPackets ==
    {<<PUBACK, 2>> \o Pack16(1), <<SUBACK, 3>> \o Pack16(1) \o <<0>>,
     <<PINGRESP, 0>>}
    \cup {PublishPacket(tp, m, FALSE, q, id) :
            tp \in Topics, m \in Messages, q \in QosLevels, id \in BrokerPids}

\* ---- actions ----
NoArg == [topic |-> <<>>, msg |-> <<>>, qos |-> 0, retain |-> FALSE]

Pre == [connected |-> connected, sock |-> sock, pid |-> pid,
        subscriptions |-> subscriptions, due |-> PingDue(Cur, now),
        wconnected |-> wconnected, received_messages |-> received_messages,
        last_ping |-> last_ping]

\* a call is made when the caller has taken the result of the previous one
Idle == last = NoCall

Commit(c, opname, arg) ==
    /\ Idle
    /\ connected' = c.connected
    /\ sock' = c.sock
    /\ pid' = c.pid
    /\ subscriptions' = c.subscriptions
    /\ last_ping' = c.last_ping
    /\ inbuf' = c.inbuf
    /\ inflight' = c.inflight
    /\ peerClosed' = c.peerClosed
    /\ received_messages' = c.received_messages
    /\ wclient' = c.wclient
    /\ wconnected' = c.wconnected
    /\ UNCHANGED policyVars
    /\ last' = [op |-> opname, result |-> IF c.exc THEN "raise" ELSE c.ret,
                val |-> c.val, log |-> c.log, rx |-> c.rx, prx |-> c.prx, pre |-> Pre,
                arg |-> arg]

Cb == IF callback THEN "handler" ELSE "none"

\* what the broker may answer a CONNECT with: nothing, a CONNACK accepting or
\* refusing, a CONNACK of the wrong size, another packet, a CONNACK cut short
CutGreetings == {<<>>, <<CONNACK>>, <<CONNACK, 2, 0>>}

Greetings ==
    CutGreetings
    \cup {<<CONNACK, 2, 0, CONN_ACCEPTED>>, <<CONNACK, 2, 0, CONN_REFUSED_AUTH>>,
          <<CONNACK, 1, 0>>, <<PINGRESP, 0>>}

Connect ==
    \E f \in Faults(1, TRUE), tcp \in TcpOutcomes, greeting \in Greetings,
       hangup \in BOOLEAN :
        /\ tcp # "ok" => (f = NoFault /\ greeting = <<>> /\ ~hangup)
        /\ f.failSend = 1 => (greeting = <<>> /\ ~hangup)
        /\ (hangup \/ f.rxErr) => greeting \in CutGreetings
        /\ Commit(connect(Cur, f, tcp, now, greeting, hangup), "connect", NoArg)
        /\ UNCHANGED <<callback, now>>

Disconnect ==
    \E f \in Faults(1, FALSE) :
        /\ Commit(disconnect(Cur, f), "disconnect", NoArg)
        /\ UNCHANGED <<callback, now>>

Ping ==
    \E f \in Faults(1, TRUE) :
        /\ Commit(ping(Cur, f, now), "ping", NoArg)
        /\ UNCHANGED <<callback, now>>

Publish ==
    \E f \in Faults(2, TRUE), topic \in Topics, msg \in Messages, retain \in BOOLEAN,
       qos \in QosLevels :
        /\ qos > 0 => pid < MaxPid
        /\ Commit(publish(Cur, f, now, topic, msg, retain, qos), "publish",
                  [topic |-> topic, msg |-> msg, qos |-> qos, retain |-> retain])
        /\ UNCHANGED <<callback, now>>

Subscribe ==
    \E f \in Faults(2, TRUE), topic \in Topics, qos \in QosLevels :
        /\ pid < MaxPid
        /\ Commit(subscribe(Cur, f, now, topic, qos), "subscribe",
                  [topic |-> topic, msg |-> <<>>, qos |-> qos, retain |-> FALSE])
        /\ UNCHANGED <<callback, now>>

CheckMsg ==
    \E f \in Faults(2, TRUE) :
        /\ Commit(check_msg(Cur, f, now, Cb), "check_msg", NoArg)
        /\ UNCHANGED <<callback, now>>

SetCallback ==
    /\ Idle
    /\ ~callback
    /\ callback' = TRUE
    /\ last' = NoCall
    /\ UNCHANGED <<clientVars, now, inbuf, inflight, peerClosed, wrapperVars, policyVars>>

\* the caller takes the result of the call; the record of it is dropped
Return ==
    /\ ~Idle
    /\ last' = NoCall
    /\ UNCHANGED <<clientVars, callback, now, inbuf, inflight, peerClosed,
                   wrapperVars, policyVars>>

Tick ==
    /\ Idle
    /\ now < MaxTime
    /\ now' = now + 1
    /\ last' = NoCall
    /\ UNCHANGED <<clientVars, callback, inbuf, inflight, peerClosed, wrapperVars, policyVars>>

\* the broker writes packet p behind what it wrote before, while at most
\* MaxBacklog bytes are waiting to be read
BrokerSend ==
    \E p \in BrokerPackets :
        /\ Idle
        /\ sock = "up" /\ ~peerClosed /\ inflight = <<>>
        /\ Len(inbuf) <= MaxBacklog
        /\ inbuf' = inbuf \o p
        /\ UNCHANGED inflight
        /\ last' = NoCall
        /\ UNCHANGED <<clientVars, callback, now, peerClosed, wrapperVars, policyVars>>

\* the broker writes packet p on an idle stream and only its first k bytes
\* arrive for now: after the type byte, inside the remaining-length field
\* or inside the payload
Cuts == {1, 3}

BrokerSendSlowly ==
    \E p \in BrokerPackets, k \in Cuts :
        /\ Idle
        /\ sock = "up" /\ ~peerClosed /\ inflight = <<>> /\ inbuf = <<>>
        /\ k < Len(p)
        /\ inbuf' = SubSeq(p, 1, k)
        /\ inflight' = SubSeq(p, k + 1, Len(p))
        /\ last' = NoCall
        /\ UNCHANGED <<clientVars, callback, now, peerClosed, wrapperVars, policyVars>>

BrokerArrive ==
    /\ Idle
    /\ inflight # <<>>
    /\ inbuf' = inbuf \o inflight
    /\ inflight' = <<>>
    /\ last' = NoCall
    /\ UNCHANGED <<clientVars, callback, now, peerClosed, wrapperVars, policyVars>>

\* the broker closes the connection; bytes still in flight are never delivered
BrokerClose ==
    /\ Idle
    /\ sock = "up" /\ ~peerClosed
    /\ peerClosed' = TRUE
    /\ inflight' = <<>>
    /\ last' = NoCall
    /\ UNCHANGED <<clientVars, callback, now, inbuf, wrapperVars, policyVars>>

Init ==
    /\ connected = FALSE
    /\ sock = "none"
    /\ pid = 0
    /\ subscriptions = {}
    /\ last_ping = 0
    /\ callback = FALSE
    /\ now = 0
    /\ inbuf = <<>>
    /\ inflight = <<>>
    /\ peerClosed = FALSE
    /\ wclient = FALSE
    /\ wconnected = FALSE
    /\ received_messages = {}
    /\ reconnect = NewReconnectionState(ScenarioPolicy)
    /\ clock = 0
    /\ last = NoCall

Next ==
    \/ Connect
    \/ Disconnect
    \/ Ping
    \/ Publish
    \/ Subscribe
    \/ CheckMsg
    \/ Return
    \/ SetCallback
    \/ Tick
    \/ BrokerSend
    \/ BrokerSendSlowly
    \/ BrokerArrive
    \/ BrokerClose

Spec == Init /\ [][Next]_vars

\* ---- a session left idle ----
\* time passes without a call, up to MaxIdle seconds after the start
Elapse ==
    /\ Idle
    /\ now < MaxIdle
    /\ now' = now + 1
    /\ last' = NoCall
    /\ UNCHANGED <<clientVars, callback, inbuf, inflight, peerClosed,
                   wrapperVars, policyVars>>

NextKeepalive ==
    \/ Connect
    \/ Publish
    \/ Subscribe
    \/ CheckMsg
    \/ Return
    \/ Elapse
    \/ BrokerSend

SpecKeepalive == Init /\ [][NextKeepalive]_vars

\* ---- a session that subscribes to several topics ----
SubscribeTopics == {<<97>>, <<98>>}

SubscribeTopic ==
    /\ Idle
    /\ pid < MaxPid
    /\ \E f \in Faults(2, TRUE), topic \in SubscribeTopics, qos \in QosLevels :
          Commit(subscribe(Cur, f, now, topic, qos), "subscribe",
                 [topic |-> topic, msg |-> <<>>, qos |-> qos, retain |-> FALSE])
    /\ UNCHANGED <<callback, now>>

NextSubscriptions ==
    \/ Connect
    \/ Disconnect
    \/ SubscribeTopic
    \/ CheckMsg
    \/ Return
    \/ BrokerSend

SpecSubscriptions == Init /\ [][NextSubscriptions]_vars

\* ---- the two MQTTClient classes side by side ----
TwinOps == {"connect", "disconnect", "ping", "publish", "subscribe", "check_msg"}

\* what the broker answers an operation with when it answers completely and
\* in time: the PINGRESP of a keepalive ping that is due, then the operation's
\* own response; check_msg expects nothing and may find a PUBLISH
KeepaliveResponse(c, t) ==
    IF c.connected /\ PingDue(c, t) THEN <<PINGRESP, 0>> ELSE <<>>

OwnResponses(op, c, qos) ==
    IF op = "connect"
    THEN {<<CONNACK, 2, 0, CONN_ACCEPTED>>, <<CONNACK, 2, 0, CONN_REFUSED_AUTH>>}
    ELSE IF ~c.connected \/ op = "disconnect" THEN {<<>>}
    ELSE IF op = "ping" THEN {<<PINGRESP, 0>>}
    ELSE IF op = "publish"
    THEN {IF qos = 1 THEN <<PUBACK, 2>> \o Pack16((c.pid + 1) % 65536) ELSE <<>>}
    ELSE IF op = "subscribe"
    THEN {<<SUBACK, 3>> \o Pack16((c.pid + 1) % 65536) \o <<qos>>}
    ELSE {<<>>} \cup {PublishPacket(tp, m, FALSE, q, id) :
                        tp \in Topics, m \in Messages, q \in QosLevels,
                        id \in BrokerPids}

ExpectedResponses(op, c, t, qos) ==
    IF op \in {"publish", "subscribe", "check_msg"}
    THEN {KeepaliveResponse(c, t) \o r : r \in OwnResponses(op, c, qos)}
    ELSE OwnResponses(op, c, qos)

\* one operation of mqtt_client.MQTTClient; a handler that raises is caught
\* inside check_msg
Twin_mqtt_client(op, c, t, cb, a) ==
    IF op = "connect" THEN connect(c, NoFault, "ok", t, a.resp, FALSE)
    ELSE IF op = "disconnect" THEN disconnect(c, NoFault)
    ELSE IF op = "ping" THEN ping(Arrive(c, a.resp), NoFault, t)
    ELSE IF op = "publish"
    THEN publish(Arrive(c, a.resp), NoFault, t, a.topic, a.msg, a.retain, a.qos)
    ELSE IF op = "subscribe"
    THEN subscribe(Arrive(c, a.resp), NoFault, t, a.topic, a.qos)
    ELSE check_msg(Arrive(c, a.resp), NoFault, t, cb)

\* self.callback(topic, message) is the last statement of mqtt.py's
\* check_msg and stands in no try block: what the handler raises leaves the
\* call
M_handler_raised(c1, raises) ==
    IF raises /\ ~c1.exc /\ \E i \in 1..Len(c1.log) : c1.log[i].ev = "deliver"
    THEN [c1 EXCEPT !.exc = TRUE]
    ELSE c1

\* the same operation of mqtt.MQTTClient
Twin_mqtt(op, c, t, cb, a) ==
    IF op = "connect" THEN M_connect(c, NoFault, "ok", t, a.resp, FALSE)
    ELSE IF op = "disconnect" THEN disconnect(c, NoFault)
    ELSE IF op = "ping" THEN M_ping(Arrive(c, a.resp), NoFault, t)
    ELSE IF op = "publish"
    THEN M_publish(Arrive(c, a.resp), NoFault, t, a.topic, a.msg, a.retain, a.qos)
    ELSE IF op = "subscribe"
    THEN M_subscribe(Arrive(c, a.resp), NoFault, t, a.topic, a.qos)
    ELSE M_handler_raised(M_check_msg(Arrive(c, a.resp), NoFault, t, cb),
                          a.raises)

\* what the claim compares: the packets sent and the handler calls in their
\* order, whether the call raised, and connected, pid and subscriptions
OnTheWire(e) == e.ev \in {"send", "send_fail", "deliver"}

TwinView(c) ==
    [result |-> IF c.exc THEN "raise" ELSE c.ret,
     wire |-> SelectSeq(c.log, OnTheWire),
     connected |-> c.connected, pid |-> c.pid,
     subscriptions |-> c.subscriptions]

\* both classes make the call from the same state; the session goes on from
\* the state mqtt_client.MQTTClient reaches
TwinCommit(c, m, opname, arg) ==
    /\ connected' = c.connected
    /\ sock' = c.sock
    /\ pid' = c.pid
    /\ subscriptions' = c.subscriptions
    /\ last_ping' = c.last_ping
    /\ inbuf' = c.inbuf
    /\ inflight' = c.inflight
    /\ peerClosed' = c.peerClosed
    /\ received_messages' = c.received_messages
    /\ wclient' = c.wclient
    /\ wconnected' = c.wconnected
    /\ UNCHANGED policyVars
    /\ last' = [op |-> opname, result |-> IF c.exc THEN "raise" ELSE c.ret,
                val |-> c.val, log |-> c.log, rx |-> c.rx, prx |-> c.prx,
                pre |-> Pre, arg |-> arg,
                own |-> TwinView(c), other |-> TwinView(m)]

TwinCall ==
    /\ Idle
    /\ \E op \in TwinOps, topic \in Topics, msg \in Messages, qos \in QosLevels,
          raises \in BOOLEAN :
          /\ raises => (op = "check_msg" /\ callback)
          /\ op \notin {"publish", "subscribe"} => qos = 0
          /\ (op = "subscribe" \/ (op = "publish" /\ qos = 1)) => pid < MaxPid
          /\ \E resp \in ExpectedResponses(op, Cur, now, qos) :
                LET a == [topic |-> topic, msg |-> msg, qos |-> qos,
                          retain |-> FALSE, resp |-> resp, raises |-> raises]
                IN  TwinCommit(Twin_mqtt_client(op, Cur, now, Cb, a),
                               Twin_mqtt(op, Cur, now, Cb, a),
                               "twin " \o op, a)
    /\ UNCHANGED <<callback, now>>

NextTwin ==
    \/ TwinCall
    \/ SetCallback
    \/ Return
    \/ Tick

SpecTwin == Init /\ [][NextTwin]_vars

\* ---- actions of the ESP32MQTTClient session ----
ESPConnect ==
    \E f \in Faults(1, TRUE), tcp \in TcpOutcomes, greeting \in Greetings,
       hangup \in BOOLEAN :
        /\ tcp # "ok" => (f = NoFault /\ greeting = <<>> /\ ~hangup)
        /\ f.failSend = 1 => (greeting = <<>> /\ ~hangup)
        /\ (hangup \/ f.rxErr) => greeting \in CutGreetings
        /\ Commit(ESP32_connect(Cur, f, tcp, now, greeting, hangup),
                  "ESP32.connect", NoArg)
        /\ callback' = TRUE
        /\ UNCHANGED now

ESPDisconnect ==
    \E f \in Faults(1, FALSE) :
        /\ Commit(ESP32_disconnect(Cur, f), "ESP32.disconnect", NoArg)
        /\ UNCHANGED <<callback, now>>

ESPPublish ==
    \E f \in Faults(2, TRUE), topic \in Topics, msg \in Messages,
       retain \in BOOLEAN, qos \in QosLevels :
        /\ qos > 0 => pid < MaxPid
        /\ Commit(ESP32_publish(Cur, f, now, topic, msg, retain, qos),
                  "ESP32.publish",
                  [topic |-> topic, msg |-> msg, qos |-> qos, retain |-> retain])
        /\ UNCHANGED <<callback, now>>

ESPSubscribe ==
    \E f \in Faults(2, TRUE), topic \in Topics, qos \in QosLevels :
        /\ pid < MaxPid
        /\ Commit(ESP32_subscribe(Cur, f, now, topic, qos), "ESP32.subscribe",
                  [topic |-> topic, msg |-> <<>>, qos |-> qos, retain |-> FALSE])
        /\ UNCHANGED <<callback, now>>

NextESP ==
    \/ ESPConnect
    \/ ESPDisconnect
    \/ ESPPublish
    \/ ESPSubscribe
    \/ Return
    \/ Tick
    \/ BrokerSend
    \/ BrokerSendSlowly
    \/ BrokerArrive
    \/ BrokerClose

SpecESP == Init /\ [][NextESP]_vars

\* topics read_topic is called with (faults are injected into reads of the
\* first), and what may reach the socket before
\* one of its polls: nothing, a PUBLISH for the first topic, or the first
\* bytes of a PUBLISH whose rest is still on its way
ReadTopics == {<<97>>, <<98>>}

ReadArrivals ==
    {<<>>,
     PublishPacket(<<97>>, <<109>>, FALSE, 0, 7),
     PublishPacket(<<97>>, <<110>>, FALSE, 1, 7),
     SubSeq(PublishPacket(<<97>>, <<109>>, FALSE, 0, 7), 1, 4)}

\* the broker's answer to a SUBSCRIBE: none in time, or a SUBACK
ReadAcks == {<<>>, <<SUBACK, 3>> \o Pack16(1) \o <<0>>}

ESPReadTopic ==
    /\ Idle
    /\ \E f \in Faults(2, TRUE), topic \in ReadTopics, ack \in ReadAcks,
          polls \in 0..MaxPolls, arrivals \in [1..MaxPolls -> ReadArrivals] :
        /\ \A i \in (polls + 1)..MaxPolls : arrivals[i] = <<>>
        /\ f.failSend = 1 => ack = <<>>
        /\ topic # <<97>> => (f = NoFault /\ ack # <<>>)
        /\ pid < MaxPid
        /\ Commit(read_topic(Cur, f, now, topic, ack, polls, arrivals),
                  "ESP32.read_topic",
                  [topic |-> topic, msg |-> <<>>, qos |-> 0, retain |-> FALSE,
                   polls |-> polls])
        /\ UNCHANGED <<callback, now>>

\* the session as a caller of read_topic drives it
NextRead ==
    \/ ESPConnect
    \/ ESPReadTopic
    \/ Return
    \/ Tick

SpecRead == Init /\ [][NextRead]_vars

\* ---- check_config_update (mqtt.py) ----
\* texts: the bytes of a message; a decimal number and a JSON object with a
\* "version" member are written and read digit by digit
RECURSIVE DecimalText(_)
DecimalText(n) ==
    IF n < 10 THEN <<48 + n>> ELSE Append(DecimalText(n \div 10), 48 + (n % 10))

IsDigits(s) == Len(s) > 0 /\ \A i \in 1..Len(s) : s[i] \in 48..57

RECURSIVE DecimalValue(_)
DecimalValue(s) ==
    IF Len(s) = 0 THEN 0
    ELSE 10 * DecimalValue(SubSeq(s, 1, Len(s) - 1)) + (s[Len(s)] - 48)

\* {"version":
VersionMember == <<123, 34, 118, 101, 114, 115, 105, 111, 110, 34, 58>>

ObjectText(member) == VersionMember \o member \o <<125>>

QuotedText(s) == <<34>> \o s \o <<34>>

\* Python values a configuration message can parse to, and None
PyNone == [kind |-> "None", vkind |-> "absent", n |-> 0, tag |-> "none"]
PyInt(n) == [kind |-> "int", vkind |-> "absent", n |-> n, tag |-> "mqtt"]
PyDict(vkind, n, tag) == [kind |-> "dict", vkind |-> vkind, n |-> n, tag |-> tag]
PyEmptyDict == [kind |-> "emptydict", vkind |-> "absent", n |-> 0, tag |-> "mqtt"]

IsQuotedDigits(s) ==
    Len(s) > 2 /\ s[1] = 34 /\ s[Len(s)] = 34 /\ IsDigits(SubSeq(s, 2, Len(s) - 1))

\* the member of an object text: what stands between {"version": and }
MemberText(s) == SubSeq(s, Len(VersionMember) + 1, Len(s) - 1)

IsObjectText(s) ==
    /\ Len(s) > Len(VersionMember) + 1
    /\ SubSeq(s, 1, Len(VersionMember)) = VersionMember
    /\ s[Len(s)] = 125
    /\ IsDigits(MemberText(s)) \/ IsQuotedDigits(MemberText(s))

\* msg.decode('utf-8') and json.loads(msg_str), on the texts above: a number,
\* {}, an object with a version; anything else raises
JsonLoads(s) ==
    IF IsDigits(s) THEN [exc |-> FALSE, value |-> PyInt(DecimalValue(s))]
    ELSE IF s = <<123, 125>> THEN [exc |-> FALSE, value |-> PyEmptyDict]
    ELSE IF IsObjectText(s) /\ IsDigits(MemberText(s))
    THEN [exc |-> FALSE, value |-> PyDict("int", DecimalValue(MemberText(s)), "mqtt")]
    ELSE IF IsObjectText(s)
    THEN [exc |-> FALSE,
          value |-> PyDict("str",
                           DecimalValue(SubSeq(MemberText(s), 2,
                                               Len(MemberText(s)) - 1)),
                           "mqtt")]
    ELSE [exc |-> TRUE, value |-> PyNone]

\* bool(value)
Truthy(v) == v.kind = "dict" \/ (v.kind = "int" /\ v.n # 0)

\* d.get("version", 0) of a dictionary
GetVersion(d) ==
    IF d.vkind = "absent" THEN [vkind |-> "int", n |-> 0]
    ELSE [vkind |-> d.vkind, n |-> d.n]

\* the outcome of the function so far: whether an exception is on its way to
\* the outer except clause, the document to return, the calls made on the
\* client
CfgOutcome(exc, doc, calls) == [exc |-> exc, doc |-> doc, calls |-> calls]

ClientCall(op, topic, wait) == [op |-> op, topic |-> topic, wait |-> wait]

\* a comparison that also takes a document of the same version
compare_versions_not_older(received, current_config, calls) ==
    IF ~Truthy(received) THEN CfgOutcome(FALSE, current_config, calls)
    ELSE IF received.kind # "dict" THEN CfgOutcome(TRUE, current_config, calls)
    ELSE IF GetVersion(received).vkind # GetVersion(current_config).vkind
    THEN CfgOutcome(TRUE, current_config, calls)
    ELSE IF GetVersion(received).n >= GetVersion(current_config).n
    THEN CfgOutcome(FALSE, received, calls)
    ELSE CfgOutcome(FALSE, current_config, calls)

\* if received_config and received_config.get("version", 0) >
\*    current_config.get("version", 0): return received_config
\* return current_config
compare_versions(received, current_config, calls) ==
    IF ~Truthy(received) THEN CfgOutcome(FALSE, current_config, calls)
    ELSE IF received.kind # "dict" THEN CfgOutcome(TRUE, current_config, calls)
    ELSE IF GetVersion(received).vkind # GetVersion(current_config).vkind
    THEN CfgOutcome(TRUE, current_config, calls)
    ELSE IF GetVersion(received).n > GetVersion(current_config).n
    THEN CfgOutcome(FALSE, received, calls)
    ELSE CfgOutcome(FALSE, current_config, calls)

\* if config_msg: try: received_config = json.loads(...) except: print
parse_config_msg(config_msg) ==
    IF config_msg = <<>> \/ JsonLoads(config_msg).exc THEN PyNone
    ELSE JsonLoads(config_msg).value

\* mqtt_config.get(key, default)
ConfigGet(mqtt_config, key, default) ==
    IF mqtt_config[key] = "absent" THEN default ELSE mqtt_config[key]

\* config_wait_time when mqtt_config has none
DefaultWaitTime == 1

WaitTime(mqtt_config) ==
    IF mqtt_config.config_wait_time = 0 THEN DefaultWaitTime
    ELSE mqtt_config.config_wait_time

\* client.read_topic(topic, wait_time): None, or the payload the broker
\* delivers for the topic within wait_time
ReadAnswer(broker, topic, arrives) ==
    IF arrives /\ topic \in DOMAIN broker THEN broker[topic] ELSE <<>>

\* the branch for an ESP32MQTTClient
esp32_branch(mqtt_config, current_config, broker, arrives) ==
    compare_versions(
        parse_config_msg(
            ReadAnswer(broker, ConfigGet(mqtt_config, "topic_config", "None"),
                       arrives)),
        current_config,
        <<ClientCall("read_topic", ConfigGet(mqtt_config, "topic_config", "None"),
                     WaitTime(mqtt_config))>>)

\* config_callback(topic, msg) of the branch for a plain MQTTClient
config_callback(mqtt_config, received, topic, msg) ==
    IF topic # ConfigGet(mqtt_config, "topic_config", "None") THEN received
    ELSE IF JsonLoads(msg).exc THEN received
    ELSE JsonLoads(msg).value

\* client.check_msg() with the callback set: nothing, an exception, or the
\* delivery of a message to config_callback
PollNothing == [kind |-> "nothing", topic |-> "None", msg |-> <<>>]
PollRaises == [kind |-> "raise", topic |-> "None", msg |-> <<>>]
PollDelivers(topic, msg) == [kind |-> "deliver", topic |-> topic, msg |-> msg]

AfterPoll(mqtt_config, received, poll) ==
    IF poll.kind = "deliver"
    THEN config_callback(mqtt_config, received, poll.topic, poll.msg)
    ELSE received

PlainCalls(mqtt_config) ==
    <<ClientCall("set_callback", "None", 0),
      ClientCall("subscribe", mqtt_config.topic_config, 0),
      ClientCall("check_msg", "None", 0)>>

\* the second check_msg and what follows
plain_second_poll(mqtt_config, current_config, received, poll2) ==
    IF poll2.kind = "raise"
    THEN CfgOutcome(TRUE, current_config,
                    Append(PlainCalls(mqtt_config), ClientCall("check_msg", "None", 0)))
    ELSE compare_versions(AfterPoll(mqtt_config, received, poll2), current_config,
                          Append(PlainCalls(mqtt_config),
                                 ClientCall("check_msg", "None", 0)))

\* the branch for a plain MQTTClient: set_callback, subscribe_to_config, two
\* check_msg calls
plain_branch(mqtt_config, current_config, subscribed, poll1, poll2) ==
    IF mqtt_config.topic_config = "absent"
    THEN CfgOutcome(FALSE, current_config, <<ClientCall("set_callback", "None", 0)>>)
    ELSE IF ~subscribed
    THEN CfgOutcome(FALSE, current_config,
                    SubSeq(PlainCalls(mqtt_config), 1, 2))
    ELSE IF poll1.kind = "raise"
    THEN CfgOutcome(TRUE, current_config, PlainCalls(mqtt_config))
    ELSE plain_second_poll(mqtt_config, current_config,
                           AfterPoll(mqtt_config, PyNone, poll1), poll2)

\* mutant of recover: the exception leaves the function
recover_reraises(body, current_config) ==
    IF body.exc THEN [result |-> "raise", doc |-> PyNone, calls |-> body.calls]
    ELSE [result |-> "return", doc |-> body.doc, calls |-> body.calls]

\* except Exception as e: ... return current_config
recover(body, current_config) ==
    [result |-> "return",
     doc |-> IF body.exc THEN current_config ELSE body.doc,
     calls |-> body.calls]

check_config_update(client, mqtt_config, current_config, env) ==
    IF client = "None" \/ ~mqtt_config.load_config_from_mqtt
    THEN [result |-> "return", doc |-> current_config, calls |-> <<>>]
    ELSE IF client = "ESP32MQTTClient"
    THEN recover(esp32_branch(mqtt_config, current_config, env.broker,
                              env.arrives),
                 current_config)
    ELSE recover(plain_branch(mqtt_config, current_config, env.subscribed,
                              env.poll1, env.poll2),
                 current_config)

\* ---- calls of check_config_update ----
MaxVersion == 2

\* mqtt_config: the configuration topic the code reads, the version and data
\* topics of the two-step protocol, the wait time (0: not given)
MqttConfigs ==
    [load_config_from_mqtt : BOOLEAN,
     topic_config : {"absent", "cfg", "ver"},
     topic_config_version : {"absent", "ver"},
     topic_config_data : {"absent", "data"},
     config_wait_time : {0, 5}]

CurrentConfigs ==
    {PyDict("int", v, "local") : v \in 0..MaxVersion}
    \cup {PyDict("absent", 0, "local")}

\* what a topic may hold at the broker: a version number, a document with a
\* version, a document whose version is a string, {}, text that is no JSON
VersionTexts == {DecimalText(v) : v \in 0..MaxVersion}

DocumentTexts ==
    {ObjectText(DecimalText(v)) : v \in 0..MaxVersion}
    \cup {ObjectText(QuotedText(DecimalText(1))), <<123, 125>>, <<123>>}

\* the retained messages of the broker
Brokers ==
    {[t \in {"ver", "data"} |-> IF t = "ver" THEN v ELSE d] :
        v \in VersionTexts \cup {<<120>>}, d \in DocumentTexts}
    \cup {[t \in {"cfg"} |-> d] : d \in DocumentTexts \cup VersionTexts}

Polls ==
    {PollNothing, PollRaises}
    \cup {PollDelivers(t, m) : t \in {"cfg", "data"},
                               m \in {ObjectText(DecimalText(MaxVersion)), <<123>>}}

\* what the client meets during a call: the retained messages, whether the
\* topic read is delivered in time, whether the subscription succeeds, what
\* the two check_msg calls of the plain client do
CfgEnv(broker, arrives, subscribed, poll1, poll2) ==
    [broker |-> broker, arrives |-> arrives, subscribed |-> subscribed,
     poll1 |-> poll1, poll2 |-> poll2]

\* the broker of a call that reads no topic
NoBroker == [t \in {"cfg"} |-> <<123, 125>>]

\* the record of a call of check_config_update: its arguments, what the
\* client met, what it returned and the calls it made on the client
CfgCall(client, mqtt_config, current_config, env) ==
    [op |-> "check_config_update", val |-> <<>>,
     log |-> <<>>, rx |-> NoRx, prx |-> NoRx, pre |-> Pre,
     arg |-> [client |-> client, mqtt_config |-> mqtt_config,
              current_config |-> current_config, env |-> env],
     result |-> check_config_update(client, mqtt_config, current_config, env).result,
     doc |-> check_config_update(client, mqtt_config, current_config, env).doc,
     calls |-> check_config_update(client, mqtt_config, current_config, env).calls]

\* check_config_update(None, ...)
CheckConfigNoClient ==
    /\ Idle
    /\ \E mqtt_config \in MqttConfigs, current_config \in CurrentConfigs :
        /\ last' = CfgCall("None", mqtt_config, current_config,
                           CfgEnv(NoBroker, FALSE, FALSE, PollNothing, PollNothing))
        /\ UNCHANGED <<clientVars, callback, now, inbuf, inflight, peerClosed,
                       wrapperVars, policyVars>>

\* check_config_update with an ESP32MQTTClient
CheckConfigESP32 ==
    /\ Idle
    /\ \E mqtt_config \in MqttConfigs, current_config \in CurrentConfigs,
       broker \in Brokers, arrives \in BOOLEAN :
        /\ last' = CfgCall("ESP32MQTTClient", mqtt_config, current_config,
                           CfgEnv(broker, arrives, FALSE, PollNothing, PollNothing))
        /\ UNCHANGED <<clientVars, callback, now, inbuf, inflight, peerClosed,
                       wrapperVars, policyVars>>

\* check_config_update with a plain MQTTClient
CheckConfigPlain ==
    /\ Idle
    /\ \E mqtt_config \in MqttConfigs, current_config \in CurrentConfigs,
       subscribed \in BOOLEAN, poll1 \in Polls, poll2 \in Polls :
        /\ last' = CfgCall("MQTTClient", mqtt_config, current_config,
                           CfgEnv(NoBroker, FALSE, subscribed, poll1, poll2))
        /\ UNCHANGED <<clientVars, callback, now, inbuf, inflight, peerClosed,
                       wrapperVars, policyVars>>

NextCfg ==
    \/ CheckConfigNoClient
    \/ CheckConfigESP32
    \/ CheckConfigPlain
    \/ Return

SpecCfg == Init /\ [][NextCfg]_vars

\* ---- the caller of the reconnection policy ----
\* the record of a call on the reconnection state
PolicyCall(opname, result, success) ==
    [op |-> opname, result |-> result, val |-> <<>>, log |-> <<>>, rx |-> NoRx,
     prx |-> NoRx, pre |-> Pre, arg |-> [success |-> success],
     was |-> reconnect, at |-> clock]

\* the policy is chosen before the first attempt
SetPolicy ==
    /\ Idle
    /\ reconnect = NewReconnectionState(reconnect.policy)
    /\ clock = 0
    /\ \E policy \in Policies \ {reconnect.policy} :
          reconnect' = NewReconnectionState(policy)
    /\ UNCHANGED <<clientVars, callback, now, inbuf, inflight, peerClosed,
                   wrapperVars, clock, last>>

\* should_attempt_connection(state)
ShouldAttempt ==
    /\ Idle
    /\ last' = PolicyCall("should_attempt_connection",
                          IF should_attempt_connection(reconnect, clock)
                          THEN "return True" ELSE "return False", FALSE)
    /\ UNCHANGED <<clientVars, callback, now, inbuf, inflight, peerClosed,
                   wrapperVars, policyVars>>

\* a connection attempt the policy allows, and update_reconnection_state
\* with its outcome
AttemptConnection ==
    /\ Idle
    /\ should_attempt_connection(reconnect, clock)
    /\ \E success \in BOOLEAN :
          /\ ~success => reconnect.attempt_count < MaxFailures
          /\ reconnect' = update_reconnection_state(reconnect, success, clock)
          /\ last' = PolicyCall("update_reconnection_state", "return", success)
    /\ UNCHANGED <<clientVars, callback, now, inbuf, inflight, peerClosed,
                   wrapperVars, clock>>

\* time passes
Wait ==
    /\ Idle
    /\ clock < MaxClock
    /\ clock' = clock + ClockStep
    /\ UNCHANGED <<clientVars, callback, now, inbuf, inflight, peerClosed,
                   wrapperVars, reconnect, last>>

NextReconnect ==
    \/ SetPolicy
    \/ ShouldAttempt
    \/ AttemptConnection
    \/ Wait
    \/ Return

SpecReconnect == Init /\ [][NextReconnect]_vars

\* ---- publish and check_msg back to back ----
\* packet ids, topics and messages the round trip is made with; the long
\* message needs a remaining length of two bytes
CodecPids == {0, 254, 255, 65534, 65535}

CodecTopics == {<<>>, <<97>>, <<97, 47, 98>>}

LongMessage == [i \in 1..130 |-> 120]

CodecMessages == {<<>>, <<109>>, <<0, 1>>, LongMessage}

\* the broker's PUBACK for the packet id the publish will allocate
roundtrip_acked(c0, qos) ==
    IF qos > 0
    THEN [c0 EXCEPT !.inbuf = <<PUBACK, 2>> \o Pack16((c0.pid + 1) % 65536)]
    ELSE c0

\* the PUBLISH packet publish has sent comes back and check_msg reads it
roundtrip_parse(c1, t) ==
    check_msg([c1 EXCEPT !.inbuf = c1.log[1].a], NoFault, t, "handler")

roundtrip(c0, t, topic, msg, retain, qos) ==
    roundtrip_parse(publish(roundtrip_acked(c0, qos), NoFault, t, topic, msg,
                            retain, qos),
                    t)

RoundTrip ==
    /\ Idle
    /\ pid \in CodecPids
    /\ \E topic \in CodecTopics, msg \in CodecMessages, retain \in BOOLEAN,
          qos \in QosLevels :
          /\ Commit(roundtrip(Cur, now, topic, msg, retain, qos), "roundtrip",
                    [topic |-> topic, msg |-> msg, qos |-> qos, retain |-> retain])
          /\ UNCHANGED <<callback, now>>

\* a connected session with a handler set, at a packet id of CodecPids
InitCodec ==
    /\ connected = TRUE
    /\ sock = "up"
    /\ pid \in CodecPids
    /\ subscriptions = {}
    /\ last_ping = 0
    /\ callback = TRUE
    /\ now = 0
    /\ inbuf = <<>>
    /\ inflight = <<>>
    /\ peerClosed = FALSE
    /\ wclient = FALSE
    /\ wconnected = FALSE
    /\ received_messages = {}
    /\ reconnect = NewReconnectionState(ScenarioPolicy)
    /\ clock = 0
    /\ last = NoCall

NextCodec ==
    \/ RoundTrip
    \/ Return

SpecCodec == InitCodec /\ [][NextCodec]_vars

\* ---- _encode_length on its own ----
\* lengths around every change of the number of bytes, and the largest
LengthSamples ==
    (0 .. 130) \cup (16380 .. 16390) \cup (2097148 .. 2097156)
    \cup {8192, 268435454, 268435455}

\* self._encode_length(length)
EncodeLength ==
    /\ Idle
    /\ \E length \in LengthSamples :
          last' = [NoCall EXCEPT !.op = "_encode_length",
                                 !.val = _encode_length(length),
                                 !.arg = [length |-> length]]
    /\ UNCHANGED <<clientVars, callback, now, inbuf, inflight, peerClosed,
                   wrapperVars, policyVars>>

NextLength ==
    \/ EncodeLength
    \/ Return

SpecLength == Init /\ [][NextLength]_vars

\* ---- _encode_length followed by the remaining-length loop ----
\* what follows the length field on the stream
FollowingBytes == {<<>>, <<200>>, <<5, 6>>}

\* the loop of _recv_packet started on the bytes of _encode_length(length)
DecodeEncodedLength ==
    /\ Idle
    /\ \E length \in LengthSamples, rest \in FollowingBytes :
          last' = [op |-> "_encode_length;_recv_packet", result |-> "return",
                   val |-> _encode_length(length), log |-> <<>>, rx |-> NoRx,
                   prx |-> NoRx, pre |-> Pre,
                   arg |-> [length |-> length, rest |-> rest],
                   decoded |-> ReadLength(_encode_length(length) \o rest, 0, 0, 1)]
    /\ UNCHANGED <<clientVars, callback, now, inbuf, inflight, peerClosed,
                   wrapperVars, policyVars>>

NextRoundTrip ==
    \/ DecodeEncodedLength
    \/ Return

SpecRoundTrip == Init /\ [][NextRoundTrip]_vars

\* ---- callers of publish_sensor_data ----
\* client = MQTTClient(...); client.connect() of get_mqtt_client's fallback
BasicConnect ==
    /\ Idle
    /\ ~wclient
    /\ \E f \in Faults(1, TRUE), tcp \in TcpOutcomes, greeting \in Greetings :
          /\ tcp # "ok" => (f = NoFault /\ greeting = <<>>)
          /\ f.failSend = 1 => greeting = <<>>
          /\ f.rxErr => greeting \in CutGreetings
          /\ Commit(M_connect(Cur, f, tcp, now, greeting, FALSE),
                    "mqtt.connect", NoArg)
    /\ UNCHANGED <<callback, now>>

\* publish_sensor_data(client, mqtt_config, sensor, temperature, humidity)
\* with no client, the ESP32MQTTClient or the basic MQTTClient at hand
PublishSensorData ==
    /\ Idle
    /\ \E kind \in ClientKinds, f \in Faults(4, TRUE) :
          /\ kind = "ESP32MQTTClient" => wclient
          /\ kind = "MQTTClient" => (~wclient /\ sock # "none")
          /\ kind = "None" => f = NoFault
          /\ Commit(publish_sensor_data(kind, Cur, f, now),
                    "publish_sensor_data", [client |-> kind])
    /\ UNCHANGED <<callback, now>>

NextSensor ==
    \/ ESPConnect
    \/ BasicConnect
    \/ PublishSensorData
    \/ Return
    \/ Tick
    \/ BrokerClose

SpecSensor == Init /\ [][NextSensor]_vars

\* ======== src/main.py: one cycle of main() ========
\* the cycle so far: the calls made in their order, whether an exception is
\* on its way out of main(), the client at hand and its connected attribute
MainStart == [trace |-> <<>>, exc |-> FALSE, client |-> "None", connected |-> FALSE]

Did(m, call) == [m EXCEPT !.trace = Append(@, call)]

\* what one cycle meets: the configuration, the WiFi, what setup_mqtt
\* returns, what the calls on the client and check_config_update yield
MainDocs == {PyDict("int", v, tag) : v \in 0..MaxVersion, tag \in {"local", "mqtt"}}

MainEnvs ==
    [mqtt_enabled : BOOLEAN, load_config_from_mqtt : BOOLEAN,
     wifi_connected : BOOLEAN,
     client : ClientKinds, setup_connected : BOOLEAN, connect_result : BOOLEAN,
     publish_success : BOOLEAN, current_version : 0..MaxVersion,
     updated_config : MainDocs, status_raises : BOOLEAN]

\* config.config of the cycle
MainConfig(e) == PyDict("int", e.current_version, "local")

\* a guard that asks only whether the document differs
main_should_save_any_change(e) == e.updated_config # MainConfig(e)

\* if updated_config != config.config
\*    and updated_config.get("version", 0) > config.current_version
main_should_save(e) ==
    /\ e.updated_config # MainConfig(e)
    /\ GetVersion(e.updated_config).n > e.current_version

\* Config.save_config(self, config) called with the given arguments: the
\* parameter config has no default, a call without it raises TypeError
save_config(m, args) ==
    IF Len(args) # 1 THEN [Did(m, "save_config()") EXCEPT !.exc = TRUE]
    ELSE Did(m, "save_config(updated_config)")

\* mqtt_client.publish(... + "/config_status", "Configuration updated"): the
\* basic client's publish raises on failure, the ESP32MQTTClient's does not
main_config_status(m, e) ==
    IF m.exc THEN m
    ELSE IF m.client = "MQTTClient" /\ e.status_raises
    THEN [Did(m, "publish config_status") EXCEPT !.exc = TRUE]
    ELSE Did(m, "publish config_status")

\* if publish_success and load_config_from_mqtt: check_config_update, save
main_check_config(m, e) ==
    IF ~(e.publish_success /\ e.load_config_from_mqtt) THEN m
    ELSE IF main_should_save(e)
    THEN main_config_status(
             save_config(Did(m, "check_config_update"), <<e.updated_config>>), e)
    ELSE Did(m, "check_config_update")

\* try: mqtt_client.disconnect() except Exception: print
main_mqtt_disconnect(m) ==
    IF m.exc THEN m ELSE Did(m, "mqtt_client.disconnect")

\* if mqtt_client and mqtt_client.connected: publish, check, disconnect
main_connected(m, e) ==
    IF m.client = "None" \/ ~m.connected THEN m
    ELSE main_mqtt_disconnect(main_check_config(Did(m, "publish_sensor_data"), e))

\* if not mqtt_client.connected: try: mqtt_client.connect()
\* except Exception: mqtt_client = None
main_connect(m, e) ==
    IF m.client = "None" \/ m.connected THEN m
    ELSE IF m.client = "ESP32MQTTClient"
    THEN [Did(m, "mqtt_client.connect") EXCEPT !.connected = e.connect_result]
    ELSE IF e.connect_result
    THEN [Did(m, "mqtt_client.connect") EXCEPT !.connected = TRUE]
    ELSE [Did(m, "mqtt_client.connect") EXCEPT !.client = "None"]

\* if mqtt_client: config.save_config()
main_save_state(m) ==
    IF m.exc \/ m.client = "None" THEN m ELSE save_config(m, <<>>)

\* disconnect_wifi(station) ... deepsleep(time_until_next_read * 1000)
main_wifi_off(m) == IF m.exc THEN m ELSE Did(m, "disconnect_wifi")
main_deepsleep(m) == IF m.exc THEN m ELSE Did(m, "deepsleep")

\* mqtt_client = setup_mqtt(config.mqtt_config)
main_setup_mqtt(m, e) ==
    [Did(m, "setup_mqtt") EXCEPT !.client = e.client,
                                !.connected = e.client # "None" /\ e.setup_connected]

main(e) ==
    IF ~e.mqtt_enabled THEN main_deepsleep(MainStart)
    ELSE IF ~e.wifi_connected THEN main_deepsleep(Did(MainStart, "connect_wifi"))
    ELSE main_deepsleep(main_wifi_off(main_save_state(main_connected(
             main_connect(main_setup_mqtt(Did(MainStart, "connect_wifi"), e), e),
             e))))

\* one wake-up of the device
MainCycle ==
    /\ Idle
    /\ \E e \in MainEnvs :
          /\ e.client = "MQTTClient" => e.setup_connected
          /\ e.client = "None" => (~e.setup_connected /\ ~e.connect_result)
          /\ e.setup_connected => ~e.connect_result
          /\ last' = [op |-> "main", val |-> <<>>, log |-> <<>>, rx |-> NoRx,
                      prx |-> NoRx, pre |-> Pre, arg |-> e,
                      result |-> IF main(e).exc THEN "raise" ELSE "deepsleep",
                      trace |-> main(e).trace]
    /\ UNCHANGED <<clientVars, callback, now, inbuf, inflight, peerClosed,
                   wrapperVars, policyVars>>

NextMain ==
    \/ MainCycle
    \/ Return

SpecMain == Init /\ [][NextMain]_vars

\* ---- _recv_packet on its own ----
\* inbound bytes: a type byte, a remaining-length field of 1 to 4 bytes (or
\* one whose 4th byte still has the continuation bit), the payload
DecodeStreams ==
    {<<t>> \o field : t \in {48, 64, 208},
                      field \in {<<0>>, <<2, 0, 7>>, <<129, 0, 7>>,
                                 <<128, 128, 128, 0>>, <<129, 128, 128, 0, 7>>,
                                 <<128, 128, 128, 128>>,
                                 <<128, 128, 128, 128, 0>>,
                                 <<129, 128, 128, 128, 0, 7>>,
                                 <<129, 128, 128, 128, 1, 7>>}}

\* self._recv_packet() of mqtt_client.py with these bytes waiting
RecvPacket ==
    /\ inbuf = <<>>
    /\ \E stream \in DecodeStreams :
          Commit(_recv_packet([Cur EXCEPT !.inbuf = stream], NoFault),
                 "_recv_packet", [stream |-> stream])
    /\ UNCHANGED <<callback, now>>

\* self._recv_packet() of mqtt.py with these bytes waiting
M_RecvPacket ==
    /\ inbuf = <<>>
    /\ \E stream \in DecodeStreams :
          Commit(M_recv_packet([Cur EXCEPT !.inbuf = stream], NoFault),
                 "mqtt._recv_packet", [stream |-> stream])
    /\ UNCHANGED <<callback, now>>

\* whole packets that reach the socket in two parts: a PINGRESP, a PUBACK, a
\* PUBLISH and a PUBLISH with a remaining-length field of two bytes
SplitStreams ==
    {<<PINGRESP, 0>>, <<PUBACK, 2, 0, 1>>, <<PUBLISH, 4, 0, 1, 97, 109>>,
     <<PUBLISH, 133, 1, 0, 1, 97>> \o LongMessage}

\* where the first part ends: after the type byte, inside the length field,
\* inside the payload
SplitPoints(stream) == {k \in {1, 2, 3, Len(stream) - 1} : k < Len(stream)}

\* the second _recv_packet of a caller that polls: the rest of the packet
\* has arrived behind what the first call left
recv_packet_again(c1, rest) ==
    IF c1.exc THEN c1
    ELSE _recv_packet([c1 EXCEPT !.prx = c1.rx, !.inbuf = @ \o rest], NoFault)

\* two _recv_packet calls, the first with only the first part there
RecvPacketSplit ==
    /\ inbuf = <<>>
    /\ \E stream \in SplitStreams :
          \E cut \in SplitPoints(stream) :
              Commit(recv_packet_again(
                         _recv_packet([Cur EXCEPT !.inbuf = SubSeq(stream, 1, cut)],
                                      NoFault),
                         SubSeq(stream, cut + 1, Len(stream))),
                     "_recv_packet twice", [stream |-> stream, cut |-> cut])
    /\ UNCHANGED <<callback, now>>

\* the bytes left over are dropped by the caller closing the connection
\* and opening a new one
DropInput ==
    /\ Idle
    /\ inbuf # <<>>
    /\ inbuf' = <<>>
    /\ UNCHANGED <<clientVars, callback, now, inflight, peerClosed,
                   wrapperVars, policyVars, last>>

NextDecode ==
    \/ RecvPacket
    \/ M_RecvPacket
    \/ RecvPacketSplit
    \/ DropInput
    \/ Return

SpecDecode == InitCodec /\ [][NextDecode]_vars

\* ---- the packet identifier counter on its own ----
\* an allocation as publish (qos > 0) and subscribe make it, and as the
\* tests call it: self._generate_packet_id()
GeneratePacketId ==
    /\ Commit([_generate_packet_id(Cur) EXCEPT !.ret = "return pid"],
              "_generate_packet_id", NoArg)
    /\ UNCHANGED <<callback, now>>

NextPid ==
    \/ GeneratePacketId
    \/ Return

SpecPid == Init /\ [][NextPid]_vars


\* ---- reading the record of the last operation ----
Sends(log) == {i \in 1..Len(log) : log[i].ev \in {"send", "send_fail"}}
SendsOf(log, type) == {i \in Sends(log) : log[i].type = type}
Delivers(log) == {i \in 1..Len(log) : log[i].ev = "deliver"}
Recvs(log) == {i \in 1..Len(log) : log[i].ev \in {"recv", "recv_fail"}}
SendFailed(log) == \E i \in 1..Len(log) : log[i].ev = "send_fail"
LastRecv(log) == CHOOSE j \in Recvs(log) : \A k \in Recvs(log) : k <= j
Raised == last.result = "raise"

\* C1: a publish, subscribe or ping attempted while connected == False fails
\* with an MQTTException, sends no packet and leaves pid unchanged.
C1_DisconnectedOpsFail ==
    (last.op \in {"publish", "subscribe", "ping"} /\ ~last.pre.connected)
        => (Raised /\ Sends(last.log) = {} /\ pid = last.pre.pid)

\* C2: connect() ends Connected only on a CONNACK whose 2-byte payload has
\* second byte 0; every other outcome raises and leaves connected == False,
\* also when connect was called on a Connected session.
ConnackAccepted(rx) ==
    rx.why = "packet" /\ rx.type = CONNACK /\ Len(rx.payload) = 2
    /\ rx.payload[2] = CONN_ACCEPTED

C2_ConnectOnlyOnAcceptedConnack ==
    last.op = "connect"
        => /\ connected => ConnackAccepted(last.rx)
           /\ ~ConnackAccepted(last.rx) => (Raised /\ ~connected)

\* C3: after disconnect() returns, from any state, connected == False, sock is
\* None and the socket that was held has been closed.
C3_DisconnectReleasesStream ==
    last.op = "disconnect"
        => /\ ~connected
           /\ sock = "none"
           /\ last.pre.sock # "none"
                => \E i \in 1..Len(last.log) : last.log[i].ev = "close"

\* C4: subscribe changes the Subscription Table only after a SUBACK was
\* received; on a timeout or another packet type the table is unchanged.
C4_SubscribeRecordsOnlyAfterSuback ==
    last.op = "subscribe"
        => (~(last.rx.why = "packet" /\ last.rx.type = SUBACK)
                => subscriptions = last.pre.subscriptions)

\* C5: the acknowledgement wait of a qos=1 publish accepts only a PUBACK that
\* carries the packet id allocated for this publish (a packet it takes without
\* raising is that PUBACK); after a missing or mismatched PUBACK the session is
\* still Connected.
MatchingPuback(rx, id) ==
    rx.why = "packet" /\ rx.type = PUBACK /\ Len(rx.payload) = 2
    /\ Unpack16(rx.payload) = id

C5_PublishAcceptsOnlyMatchingPuback ==
    (last.op = "publish" /\ last.arg.qos = 1 /\ last.pre.connected
     /\ last.rx.why \in {"packet", "timeout"})
        => /\ (last.rx.why = "packet" /\ ~Raised) => MatchingPuback(last.rx, pid)
           /\ ~MatchingPuback(last.rx, pid) => connected

C7_WrapperTimeoutIsSoft ==
    (last.op = "ESP32.publish" /\ last.pre.wconnected /\ last.pre.connected
     /\ ~SendFailed(last.log)
     /\ \/ last.prx.why = "timeout"
        \/ (last.arg.qos = 1 /\ last.rx.why = "timeout"))
        => wconnected

\* C8: every I/O failure of the byte stream (a send raising, a receive
\* raising, a receive returning no bytes because the peer closed) leaves the
\* session Disconnected and is raised to the caller.
IoFailed(r) ==
    \/ SendFailed(r.log)
    \/ r.rx.why \in {"error", "closed"}
    \/ r.prx.why \in {"error", "closed"}

C8_IoFailureDisconnects ==
    (last.op \in {"ping", "publish", "subscribe", "check_msg"}
     /\ last.pre.connected /\ IoFailed(last))
        => (~connected /\ Raised)

\* C9: a qos=1 PUBLISH received by check_msg is answered with exactly one
\* PUBACK carrying the PUBLISH's packet id, sent before (topic, message) goes
\* to the registered handler; a qos=0 PUBLISH is delivered and not answered.
Received(r, packet) ==
    /\ r.rx.why = "packet"
    /\ <<r.rx.type>> \o _encode_length(Len(r.rx.payload)) \o r.rx.payload = packet

DeliveredOnce(log, topic, msg) ==
    \E j \in Delivers(log) :
        Delivers(log) = {j} /\ log[j].a = topic /\ log[j].b = msg

C9_PubackBeforeDelivery ==
    \A tp \in Topics, m \in Messages, r \in BOOLEAN, id \in BrokerPids :
        /\ (last.op = "check_msg" /\ Received(last, PublishPacket(tp, m, r, 1, id)))
            => /\ \E i \in SendsOf(last.log, PUBACK) :
                    /\ SendsOf(last.log, PUBACK) = {i}
                    /\ last.log[i].a = <<PUBACK, 2>> \o Pack16(id)
                    /\ \A j \in Delivers(last.log) : i < j
               /\ callback => DeliveredOnce(last.log, tp, m)
        /\ (last.op = "check_msg" /\ Received(last, PublishPacket(tp, m, r, 0, id)))
            => /\ SendsOf(last.log, PUBACK) = {}
               /\ callback => DeliveredOnce(last.log, tp, m)

C9_Witness ==
    \E tp \in Topics, m \in Messages, id \in BrokerPids :
        /\ last.op = "check_msg" /\ callback
        /\ Received(last, PublishPacket(tp, m, FALSE, 1, id))
        /\ SendsOf(last.log, PUBACK) # {}
        /\ DeliveredOnce(last.log, tp, m)

\* C10: a complete packet that is no PUBLISH, received by check_msg, is
\* dropped: the handler is not invoked, nothing is sent for it, nothing is
\* raised, and connected, pid and the Subscription Table are as before the call.
OtherPacket(rx) == rx.why = "packet" /\ (rx.type \div 16) * 16 # PUBLISH

C10_OtherPacketsDropped ==
    (last.op = "check_msg" /\ OtherPacket(last.rx))
        => /\ ~Raised
           /\ Delivers(last.log) = {}
           /\ \A i \in Sends(last.log) : i < LastRecv(last.log)
           /\ Sends(last.log) \subseteq SendsOf(last.log, PINGREQ)
           /\ connected = last.pre.connected
           /\ pid = last.pre.pid
           /\ subscriptions = last.pre.subscriptions

C10_Witness ==
    /\ last.op = "check_msg" /\ callback
    /\ OtherPacket(last.rx) /\ last.rx.type = PUBACK
    /\ connected /\ ~Raised /\ last.log[Len(last.log)].ev = "recv"

\* C11: a received PUBLISH whose payload is shorter than 2 bytes, than its
\* declared topic length or (qos > 0) than topic plus packet id is rejected:
\* the handler is not invoked for it, no PUBACK is sent for it, and the
\* session stays connected.
IsPublish(type) == type >= 0 /\ (type \div 16) * 16 = PUBLISH

Truncated(type, payload) ==
    \/ Len(payload) < 2
    \/ Len(payload) < 2 + Unpack16(payload)
    \/ ((type \div 2) % 4 > 0 /\ Len(payload) < 2 + Unpack16(payload) + 2)

TruncatedPublishAt(log, i) ==
    /\ log[i].ev = "recv"
    /\ IsPublish(log[i].type)
    /\ Truncated(log[i].type, log[i].a)

C11_TruncatedPublishRejected ==
    \A i \in 1..Len(last.log) :
        TruncatedPublishAt(last.log, i)
            => /\ i + 1 \notin Delivers(last.log)
               /\ i + 1 \notin SendsOf(last.log, PUBACK)
               /\ i = Len(last.log) => (connected /\ wconnected = last.pre.wconnected)

\* ---- reading the record of a read_topic call ----
\* the PUBLISH received at event i parses, whole, to this topic
PublishFor(log, i, topic) ==
    /\ log[i].ev = "recv"
    /\ IsPublish(log[i].type)
    /\ ~Truncated(log[i].type, log[i].a)
    /\ Slice(log[i].a, 2, 2 + Unpack16(log[i].a)) = topic

\* the message of the PUBLISH received at event i
PublishMessage(log, i) ==
    LET skip == 2 + Unpack16(log[i].a)
                + (IF (log[i].type \div 2) % 4 > 0 THEN 2 ELSE 0)
    IN  Slice(log[i].a, skip, Len(log[i].a))

\* event i is the receive of a poll itself: not the wait for a SUBACK or a
\* PINGRESP, which follows the send of the request
PollRecv(log, i) ==
    /\ log[i].ev \in {"recv", "recv_fail"}
    /\ i > 1
    /\ ~(log[i - 1].ev = "send" /\ log[i - 1].type \in {SUBSCRIBE + 2, PINGREQ})

ReadReturned == last.op = "ESP32.read_topic" /\ last.result = "return payload"

\* C13: read_topic never returns a payload that was in the Message Store
\* before the call: a returned payload was delivered to the store during
\* this call, for the topic read, and is the latest such delivery.
C13_ReadReturnsFreshPayload ==
    ReadReturned
        => \E j \in Delivers(last.log) :
              /\ last.log[j].a = last.arg.topic
              /\ last.log[j].b = last.val
              /\ \A k \in Delivers(last.log) :
                    (k > j) => last.log[k].a # last.arg.topic

C13_Witness ==
    /\ ReadReturned
    /\ last.arg.topic \in DictKeys(last.pre.received_messages)
    /\ DictGet(last.pre.received_messages, last.arg.topic) # last.val
    /\ \E j \in Delivers(last.log) : last.log[j].b = last.val

PidModulus == 65536

PidMax == PidModulus - 1

Allocated == last.op = "_generate_packet_id"

CfgArg == last.arg

\* a call with an ESP32MQTTClient, loading enabled, whose configuration names
\* the version topic and the data topic
TwoStepCall ==
    /\ last.op = "check_config_update"
    /\ CfgArg.client = "ESP32MQTTClient"
    /\ CfgArg.mqtt_config.load_config_from_mqtt
    /\ CfgArg.mqtt_config.topic_config_version # "absent"
    /\ CfgArg.mqtt_config.topic_config_data # "absent"

\* what reading a topic of the broker yields in this call
Yields(topic) == ReadAnswer(CfgArg.env.broker, topic, CfgArg.env.arrives)

VersionYield == Yields(CfgArg.mqtt_config.topic_config_version)

DataYield == Yields(CfgArg.mqtt_config.topic_config_data)

LocalVersion == GetVersion(CfgArg.current_config).n

\* the version topic announces a version above the local one
NewerAnnounced == IsDigits(VersionYield) /\ DecimalValue(VersionYield) > LocalVersion

\* the document of the data topic carries the version announced
DataMatches ==
    /\ DataYield # <<>>
    /\ ~JsonLoads(DataYield).exc
    /\ JsonLoads(DataYield).value.kind = "dict"
    /\ JsonLoads(DataYield).value.vkind = "int"
    /\ JsonLoads(DataYield).value.n = DecimalValue(VersionYield)

ReadsVersionTopicFirst ==
    /\ Len(last.calls) >= 1
    /\ last.calls[1].op = "read_topic"
    /\ last.calls[1].topic = CfgArg.mqtt_config.topic_config_version

\* C15: with an ESP32MQTTClient check_config_update reads the version topic
\* first; if the version announced is above the local one it reads the data
\* topic with the same wait time and returns the fetched document only if
\* its own version equals the one announced; otherwise it returns the
\* existing document.
C15_VersionThenData ==
    TwoStepCall
        => /\ ReadsVersionTopicFirst
           /\ NewerAnnounced
                => /\ Len(last.calls) = 2
                   /\ last.calls[2].op = "read_topic"
                   /\ last.calls[2].topic = CfgArg.mqtt_config.topic_config_data
                   /\ last.calls[2].wait = last.calls[1].wait
                   /\ last.doc = IF DataMatches THEN JsonLoads(DataYield).value
                                 ELSE CfgArg.current_config
           /\ ~NewerAnnounced => last.doc = CfgArg.current_config

\* C16: when the version topic yields no value, no integer, or a version not
\* above the local one, the existing document is returned and exactly one
\* read_topic call is made, on the version topic.
C16_OneReadWhenNotNewer ==
    (TwoStepCall /\ ~NewerAnnounced)
        => /\ last.doc = CfgArg.current_config
           /\ Len(last.calls) = 1
           /\ ReadsVersionTopicFirst

\* a failure of reading, decoding or parsing in the call
CfgReadFailed ==
    \/ /\ CfgArg.client = "ESP32MQTTClient"
       /\ \/ ~CfgArg.env.arrives
          \/ \E t \in DOMAIN CfgArg.env.broker :
                /\ last.calls[1].topic = t
                /\ JsonLoads(CfgArg.env.broker[t]).exc
    \/ /\ CfgArg.client = "MQTTClient"
       /\ \/ ~CfgArg.env.subscribed
          \/ CfgArg.env.poll1.kind = "raise"
          \/ CfgArg.env.poll2.kind = "raise"
          \/ /\ \E q \in {CfgArg.env.poll1, CfgArg.env.poll2} : q.kind = "deliver"
             /\ \A q \in {CfgArg.env.poll1, CfgArg.env.poll2} :
                    q.kind = "deliver" => JsonLoads(q.msg).exc

\* C17: check_config_update never raises; without a client or with loading
\* switched off it returns the existing configuration and makes no call on
\* the client; after a failure of reading, decoding or parsing it returns
\* the existing configuration.
C17_NeverRaises ==
    last.op = "check_config_update"
        => /\ last.result = "return"
           /\ (CfgArg.client = "None" \/ ~CfgArg.mqtt_config.load_config_from_mqtt)
                => (last.doc = CfgArg.current_config /\ last.calls = <<>>)
           /\ (CfgArg.client # "None" /\ CfgArg.mqtt_config.load_config_from_mqtt
               /\ CfgReadFailed)
                => last.doc = CfgArg.current_config

C17_Witness ==
    /\ last.op = "check_config_update"
    /\ CfgArg.client = "MQTTClient"
    /\ CfgArg.mqtt_config.load_config_from_mqtt
    /\ CfgArg.env.subscribed
    /\ CfgArg.env.poll1 = PollDelivers("cfg", ObjectText(DecimalText(MaxVersion)))
    /\ CfgArg.mqtt_config.topic_config = "cfg"
    /\ LocalVersion < MaxVersion
    /\ CfgArg.env.poll2.kind = "raise"
    /\ last.result = "return"
    /\ last.doc = CfgArg.current_config

\* ---- reading the record of a call on the reconnection state ----
Asked == last.op = "should_attempt_connection"

Updated == last.op = "update_reconnection_state"

Allowed == last.result = "return True"

\* seconds since the last attempt when the policy was asked
Elapsed == last.at - last.was.last_attempt_time

\* failures beyond max_attempts when the policy was asked
Excess == last.was.attempt_count - last.was.policy.max_attempts

\* min_interval multiplied by backoff_factor once per failure beyond the cap
RECURSIVE GrownInterval(_, _)
GrownInterval(policy, k) ==
    IF k = 0 THEN policy.min_interval
    ELSE policy.backoff_factor * GrownInterval(policy, k - 1)

\* C18: should_attempt_connection returns true when attempt_count is below
\* max_attempts; otherwise it returns true exactly when the time since the
\* last attempt is at least min_interval * backoff_factor^(attempt_count -
\* max_attempts), capped at max_interval.
C18_BackoffInterval ==
    Asked
        => /\ Excess < 0 => Allowed
           /\ Excess >= 0
                => (Allowed <=>
                        Elapsed >= Min(GrownInterval(last.was.policy, Excess),
                                       last.was.policy.max_interval))

C18_Witness ==
    /\ Asked
    /\ last.was.policy = ScenarioPolicy
    /\ Excess = 3
    /\ Elapsed >= ScenarioPolicy.max_interval
    /\ Elapsed < GrownInterval(ScenarioPolicy, 3)
    /\ Allowed

\* what update_reconnection_state leaves: a failure increments attempt_count,
\* a success resets it, both set last_attempt_time to the time of the call
UpdateRecorded ==
    Updated
        => /\ reconnect.last_attempt_time = last.at
           /\ reconnect.attempt_count =
                IF last.arg.success THEN 0 ELSE last.was.attempt_count + 1

AskedInScenario(failures) ==
    Asked /\ last.was.policy = ScenarioPolicy /\ last.was.attempt_count = failures

RoundTripped == last.op = "roundtrip"

\* C20: parsing the PUBLISH that publish built, as check_msg parses it,
\* yields the same topic, the same packet id when qos > 0 (none for qos 0)
\* and the same payload.
C20_PublishRoundTrip ==
    RoundTripped
        => /\ ~Raised
           /\ \E j \in Delivers(last.log) :
                 /\ last.log[j].a = last.arg.topic
                 /\ last.log[j].b = last.arg.msg
                 /\ \A k \in Delivers(last.log) : k = j
           /\ last.arg.qos = 0 => SendsOf(last.log, PUBACK) = {}
           /\ last.arg.qos > 0
                => \E j \in SendsOf(last.log, PUBACK) :
                      /\ last.log[j].a = <<PUBACK, 2>> \o Pack16(pid)
                      /\ pid = (last.pre.pid + 1) % PidModulus
                      /\ Unpack16(Pack16(pid)) = pid

C20_Witness ==
    /\ RoundTripped
    /\ last.arg.qos = 1
    /\ last.arg.msg = LongMessage
    /\ last.arg.topic = <<97, 47, 98>>
    /\ last.pre.pid = 255
    /\ \E j \in Delivers(last.log) : last.log[j].b = LongMessage

\* ---- reading the record of an _encode_length call ----
Encoded == last.op = "_encode_length"

\* the number a sequence of base-128 digits stands for, least significant
\* digit first
RECURSIVE Base128Value(_)
Base128Value(bytes) ==
    IF bytes = <<>> THEN 0
    ELSE (Head(bytes) % 128) + 128 * Base128Value(Tail(bytes))

\* continuation bit on every byte but the last, no trailing zero digit
CanonicalLength(bytes) ==
    /\ Len(bytes) \in 1..4
    /\ \A i \in 1..Len(bytes) : bytes[i] \in 0..255
    /\ \A i \in 1..(Len(bytes) - 1) : bytes[i] >= 128
    /\ bytes[Len(bytes)] < 128
    /\ Len(bytes) > 1 => bytes[Len(bytes)] # 0

\* C21: _encode_length(n) is the canonical MQTT variable-length integer:
\* base-128 digits least significant first, continuation bit on every byte
\* but the last, no superfluous trailing byte; 0, 127, 128, 16384 and
\* 2097151 encode as the claim lists them.
C21_EncodeLengthCanonical ==
    Encoded
        => /\ CanonicalLength(last.val)
           /\ Base128Value(last.val) = last.arg.length
           /\ last.arg.length = 0 => last.val = <<0>>
           /\ last.arg.length = 127 => last.val = <<127>>
           /\ last.arg.length = 128 => last.val = <<128, 1>>
           /\ last.arg.length = 16384 => last.val = <<128, 128, 1>>
           /\ last.arg.length = 2097151 => last.val = <<255, 255, 127>>

C21_Witness == Encoded /\ last.arg.length = 16384 /\ Len(last.val) = 3

\* ---- reading the record of a _recv_packet call ----
PacketRead == last.op \in {"_recv_packet", "mqtt._recv_packet"}

\* the number of bytes of the remaining-length field of a stream: up to the
\* first byte without the continuation bit, 4 at most
RECURSIVE FieldLength(_, _)
FieldLength(bytes, seen) ==
    IF bytes = <<>> \/ seen = 4 THEN seen
    ELSE IF Head(bytes) < 128 THEN seen + 1
    ELSE FieldLength(Tail(bytes), seen + 1)

LengthField(stream) == SubSeq(stream, 2, 1 + FieldLength(Tail(stream), 0))

\* 4 bytes and the continuation bit still set
Overlong(stream) ==
    Len(LengthField(stream)) = 4 /\ LengthField(stream)[4] >= 128

\* bytes the call took from the stream
Consumed == Len(last.arg.stream) - Len(inbuf)

\* C22: decoding the remaining length consumes at most 4 length bytes, stops
\* at the first byte without the continuation bit, and fails with an error
\* when 4 bytes have been consumed and the continuation bit is still set.
C22_LengthFieldBounded ==
    PacketRead
        => /\ Overlong(last.arg.stream) => (Raised /\ Consumed = 5)
           /\ ~Overlong(last.arg.stream)
                => /\ ~Raised
                   /\ last.rx.type = Head(last.arg.stream)
                   /\ Consumed = 1 + Len(LengthField(last.arg.stream))
                                   + Base128Value(LengthField(last.arg.stream))

\* ---- reading the record of a publish_sensor_data call ----
SensorCall == last.op = "publish_sensor_data"

\* the PUBLISH packets of the call that went out on the socket
SensorPublished ==
    {i \in 1..Len(last.log) : last.log[i].ev = "send" /\ IsPublish(last.log[i].type)}

\* C23: publish_sensor_data returns True only if the temperature, humidity
\* and combined-data messages were all published, and False when the client
\* is None or any of the three publishes fails, for both client types.
C23_SensorDataAllOrFalse ==
    SensorCall
        => (last.result = "return True"
               <=> (last.arg.client # "None" /\ Cardinality(SensorPublished) = 3))

\* ---- reading the record of two _recv_packet calls ----
SplitRead == last.op = "_recv_packet twice"

\* the payload a well-formed stream declares
DeclaredPayload(stream) ==
    SubSeq(stream, 2 + Len(LengthField(stream)), Len(stream))

\* C24: a packet that reaches the socket across two receive calls is
\* reported as "no packet yet" by the first call and delivered intact by the
\* second, which leaves nothing of it behind: every call starts at a packet
\* boundary, and no byte is lost or taken for a header.
C24_FramingAcrossShortReads ==
    SplitRead
        => /\ ~Raised
           /\ last.prx.type = -1
           /\ last.rx.type = Head(last.arg.stream)
           /\ last.rx.payload = DeclaredPayload(last.arg.stream)
           /\ inbuf = <<>>

\* ---- a PUBLISH read where a response was awaited ----
AwaitsResponse == last.op \in {"publish", "subscribe", "ping"}

\* the receive of the operation, or that of its keepalive ping, read a PUBLISH
PublishWhileWaiting ==
    AwaitsResponse /\ (IsPublish(last.rx.type) \/ IsPublish(last.prx.type))

\* C25: a PUBLISH that the broker sends while the client waits for a PUBACK,
\* SUBACK or PINGRESP is not taken for the response (the operation does not
\* fail on it) and is dispatched to the handler.
C25_PublishNotLostWhileWaiting ==
    PublishWhileWaiting
        => (~Raised /\ (callback => Delivers(last.log) # {}))

\* ---- the implicit ping of publish, subscribe and check_msg ----
\* an operation with the keepalive check, called on a connected session
KeepaliveOp ==
    last.op \in {"publish", "subscribe", "check_msg"} /\ last.pre.connected

IdleTime == now - last.pre.last_ping
Pings == SendsOf(last.log, PINGREQ)

\* the implicit ping went out and returned normally
PingReturned ==
    /\ Pings # {}
    /\ last.log[1].ev = "send"
    /\ last.prx.why # "error"
    /\ last.prx.type \in {-1, PINGRESP}

\* what holds of the ping whether the check is > or >=: it is the first
\* thing on the wire, there is one at most, and it sets last_ping
PingFirstOnceAndRecorded ==
    /\ Cardinality(Pings) <= 1
    /\ Pings \subseteq {1}
    /\ PingReturned => last_ping = now
    /\ Pings = {} => last_ping = last.pre.last_ping

OwnPacketSent ==
    \/ /\ last.op = "publish"
       /\ last.arg.qos = 1
       /\ \E i \in Sends(last.log) : IsPublish(last.log[i].type)
    \/ /\ last.op = "subscribe"
       /\ SendsOf(last.log, SUBSCRIBE + 2) # {}

ReceiveLimit(stream) ==
    1 + Len(LengthField(stream))
      + (IF Overlong(stream) THEN 0 ELSE Base128Value(LengthField(stream)))

\* C28: whatever the broker sends, a single receive consumes at most 1 type
\* byte, 4 length bytes and the declared payload bytes, and then returns.
C28_ReceiveConsumesBounded ==
    PacketRead => Consumed <= ReceiveLimit(last.arg.stream)

\* ---- the wrapper's flag and the inner client's ----
WrapperOp ==
    last.op \in {"ESP32.connect", "ESP32.disconnect", "ESP32.publish",
                 "ESP32.subscribe", "ESP32.read_topic"}

\* the wrapper counts as disconnected while its client holds an open,
\* connected socket: ESP32MQTTClient.disconnect() would return without
\* closing it
OrphanedSocket == wclient /\ ~wconnected /\ connected /\ sock = "up"

\* C29: after every completed ESP32MQTTClient operation the wrapper's
\* connected flag equals the inner MQTTClient's, and the wrapper is never
\* marked disconnected while the inner client holds an open connected socket.
C29_WrapperFlagMatchesInner ==
    (WrapperOp /\ wclient) => (wconnected = connected /\ ~OrphanedSocket)

\* ---- read_topic and the subscriptions of the inner client ----
\* a read_topic on a session that already holds a subscription to the topic
ReadOfSubscribedTopic ==
    /\ last.op = "ESP32.read_topic"
    /\ last.pre.wconnected
    /\ last.arg.topic \in DictKeys(last.pre.subscriptions)

\* C30: read_topic sends a SUBSCRIBE only if the topic is not yet in the
\* subscription table: repeated read_topic calls for the same topic on one
\* connection send SUBSCRIBE at most once.
C30_ReadSubscribesOnce ==
    ReadOfSubscribedTopic => SendsOf(last.log, SUBSCRIBE + 2) = {}

\* ---- the subscribe step of read_topic ----
\* a send of the log together with the receive that answers it
StepEnd(i) == i + (IF last.log[i].ev = "send" THEN 1 ELSE 0)

Subscribes == SendsOf(last.log, SUBSCRIBE + 2)
FirstSubscribe == CHOOSE i \in Subscribes : \A k \in Subscribes : i <= k

\* the SUBSCRIBE went out and a SUBACK came back
SubscribeSucceeded ==
    /\ Subscribes # {}
    /\ last.log[FirstSubscribe].ev = "send"
    /\ FirstSubscribe < Len(last.log)
    /\ last.log[FirstSubscribe + 1].ev = "recv"
    /\ last.log[FirstSubscribe + 1].type = SUBACK

\* where the events of self.subscribe(topic) end in the log of a read_topic
SubscribeStepEnd ==
    IF Subscribes # {} THEN StepEnd(FirstSubscribe)
    ELSE IF last.pre.due /\ last.log # <<>> THEN StepEnd(1)
    ELSE 0

ReadWithFailedSubscribe ==
    /\ last.op = "ESP32.read_topic"
    /\ last.pre.wconnected
    /\ ~SubscribeSucceeded

\* C31: when the subscribe step inside read_topic fails, read_topic returns
\* none without polling the connection and without returning any payload.
C31_FailedSubscribeEndsRead ==
    ReadWithFailedSubscribe
        => /\ last.result = "return None"
           /\ Len(last.log) = SubscribeStepEnd
           /\ Delivers(last.log) = {}

\* C32: in every state of mqtt_client.MQTTClient reachable through connect,
\* disconnect, ping, publish, subscribe and check_msg, with any broker
\* response and I/O failure, connected == True implies sock is not None.
C32_ConnectedHasSocket == connected => sock # "none"

C32_Witness ==
    /\ last.op = "disconnect"
    /\ last.pre.connected
    /\ last.pre.sock = "up"
    /\ sock = "none"
    /\ ~connected

\* C33: the subscription table only grows: no step removes the entry of a
\* topic, and the QoS of an entry changes only by a subscribe to its topic.
C33_SubscriptionsOnlyGrow ==
    [][\A e \in subscriptions :
          /\ e[1] \in DictKeys(subscriptions')
          /\ e \notin subscriptions'
                => (last'.op = "subscribe" /\ last'.arg.topic = e[1])]_vars

C33_Witness ==
    /\ last.op = "connect"
    /\ last.pre.subscriptions # {}
    /\ ~last.pre.connected
    /\ connected
    /\ subscriptions = last.pre.subscriptions

\* ---- the two MQTTClient classes on the same call ----
TwinCalled == last.op \in {"twin " \o op : op \in TwinOps}

ReturnedVersion == GetVersion(last.doc)

\* C35: configuration versions never go backwards: the document returned by
\* check_config_update has a version greater than or equal to that of the
\* current configuration, and it differs from the current configuration only
\* when its version is strictly greater.
C35_VersionsNeverGoBack ==
    last.op = "check_config_update"
        => /\ ReturnedVersion.vkind = "int"
           /\ ReturnedVersion.n >= LocalVersion
           /\ last.doc # CfgArg.current_config => ReturnedVersion.n > LocalVersion

C35_Witness ==
    /\ last.op = "check_config_update"
    /\ CfgArg.client = "ESP32MQTTClient"
    /\ last.doc # CfgArg.current_config
    /\ last.doc.tag = "mqtt"
    /\ ReturnedVersion.n = MaxVersion
    /\ LocalVersion = MaxVersion - 1

\* ---- reading the record of a cycle of main() ----
MainRan == last.op = "main"
Calls(call) == {i \in 1..Len(last.trace) : last.trace[i] = call}
Before(a, b) == \A i \in Calls(a), j \in Calls(b) : i < j

\* C36: in one cycle of main(), check_config_update is invoked only after
\* publish_sensor_data has returned success in that cycle, and the
\* configuration is saved only when the returned document differs from the
\* current one and its version is strictly greater than the current version.
C36_ConfigCheckAfterPublish ==
    MainRan
        => /\ Calls("check_config_update") # {}
                => /\ Calls("publish_sensor_data") # {}
                   /\ Before("publish_sensor_data", "check_config_update")
                   /\ last.arg.publish_success
           /\ Calls("save_config(updated_config)") # {}
                => /\ Before("check_config_update", "save_config(updated_config)")
                   /\ Calls("check_config_update") # {}
                   /\ last.arg.updated_config # MainConfig(last.arg)
                   /\ GetVersion(last.arg.updated_config).n
                          > last.arg.current_version

C36_Witness ==
    /\ MainRan
    /\ last.arg.client = "ESP32MQTTClient"
    /\ Calls("save_config(updated_config)") # {}
    /\ Calls("publish config_status") # {}
    /\ GetVersion(last.arg.updated_config).n = last.arg.current_version + 1

\* a cycle in which WiFi was connected and an MQTT client was set up
MainWithClient ==
    /\ MainRan
    /\ last.arg.mqtt_enabled
    /\ last.arg.wifi_connected
    /\ last.arg.client # "None"

\* C37: in every cycle of main() in which WiFi was connected and an MQTT
\* client was set up, the MQTT client is disconnected, then WiFi is
\* disconnected, and only then the device enters deep sleep; no step between
\* the MQTT setup and deepsleep aborts the cycle.
C37_CycleEndsInDeepSleep ==
    MainWithClient
        => /\ last.result = "deepsleep"
           /\ Calls("mqtt_client.disconnect") # {}
           /\ Calls("disconnect_wifi") # {}
           /\ Calls("deepsleep") # {}
           /\ Before("mqtt_client.disconnect", "disconnect_wifi")
           /\ Before("disconnect_wifi", "deepsleep")

\* ---- reading the record of an encoded length that was decoded ----
LengthDecoded == last.op = "_encode_length;_recv_packet"

\* C38: for every n in [0, 268435455], the remaining-length loop of
\* _recv_packet fed with the bytes of _encode_length(n) yields n and consumes
\* exactly those bytes, between 1 and 4 of them.
C38_LengthRoundTrip ==
    LengthDecoded
        => /\ last.decoded.status = "ok"
           /\ last.decoded.value = last.arg.length
           /\ last.decoded.used = Len(last.val)
           /\ last.decoded.used \in 1..4
           /\ last.decoded.buf = last.arg.rest

C38_Witness ==
    /\ LengthDecoded
    /\ last.arg.length = 268435455
    /\ last.arg.rest = <<200>>
    /\ last.decoded.used = 4
    /\ last.decoded.value = 268435455

====
